---- MODULE Spec2Model ----
(***************************************************************************)
(* Verification model of the EtherNet/IP + CIP client runtime:            *)
(*   - PLCConnectionPool            (services/plc_manager.py)              *)
(*   - PLCManager._read_full_tag    (services/plc_manager.py)              *)
(*   - PLCClient send / recv path   (plc.py)                               *)
(*   - PLCClient session fields     (plc.py, services/plc_manager.py)      *)
(*   - SessionOrchestrator          (webapi/orchestrator.py)               *)
(*   - IORuntime                    (services/io_runtime.py)               *)
(* Each component has its own specification over the shared variables.     *)
(***************************************************************************)
EXTENDS Integers, Sequences, FiniteSets, TLC

VARIABLES
    \* ---- PLCConnectionPool ----
    pool_max_size,   \* PLCConnectionPool._max_size
    pool_clients,    \* PLCConnectionPool._clients (deque, tail = right end)
    pool_created,    \* PLCConnectionPool._created
    pool_issued,     \* clients that acquire has handed to a caller so far
    pool_result,     \* outcome of the last acquire / release call
    \* ---- PLCManager._read_full_tag ----
    tag_total,       \* total_size argument
    tag_connected,   \* client.sock is not None
    tag_pc,          \* "loop" | "recv" | "done" | "failed"
    tag_offset,      \* offset
    tag_remaining,   \* remaining_size
    tag_chunks,      \* data_chunks
    tag_last_status, \* last_status.code
    tag_requests,    \* ReadOtherTag requests sent so far, in order
    tag_replies,     \* replies received so far, in order
    tag_result,      \* what the call returned or raised
    \* ---- PLCClient ----
    cl_pc,           \* "new" | "register" | "recv" | "header" | "payload" | "idle" | "raised"
    cl_sock,         \* self.sock is not None
    cl_session_id,   \* self.session_id
    cl_sequence,     \* self.sequence
    cl_calls,        \* number of send helpers called so far
    cl_op,           \* the call in progress or last made
    cl_result,       \* what the last call returned or raised
    rx_stream,       \* bytes the peer has for this client, in order
    rx_avail,        \* how many of them the peer sends before it stops
    rx_open,         \* the peer keeps the connection open after that
    rx_pos,          \* bytes of rx_stream handed out by sock.recv so far
    rx_header,       \* recv_enippkt: header
    rx_payload,      \* recv_enippkt: payload
    rx_asked,        \* furthest stream position any sock.recv(size) reached for
    rx_reads,        \* sock.recv calls made by the payload loop
    rx_short,        \* loops in which some sock.recv returned fewer bytes than asked
    rx_last,         \* what the last socket call did
    \* ---- SessionOrchestrator ----
    o_deploy,        \* threads calling the API and sessions they may start
    o_pc,            \* where each thread is in the code
    o_loc,           \* each thread's locals: the call, its session, alias, client, request
    o_sessions,      \* keys of SessionOrchestrator._sessions
    o_next_sid,      \* the next session id uuid4 will produce
    o_client,        \* handle.client of every handle ever created
    o_loops,         \* keys of SessionOrchestrator._session_loops
    o_stop,          \* stop_event.is_set() of each session's loop state
    o_iolock,        \* holder of each handle.io_lock
    o_reglock,       \* holder of SessionOrchestrator._lock
    o_wire,          \* per client: requests sent whose reply is not yet read
    o_result,        \* history: what the API call that ended in this step gave
    o_logged,        \* history: per session, the exceptions its workers have logged
    \* ---- IORuntime ----
    rt_lock,         \* holder of IORuntime._lock
    rt_ts,           \* per alias: record.last_timestamp is not None
    rt_queue,        \* record.pending_outputs of the output assembly
    rt_req,          \* state of every OutputRequest
    \* ---- PLCClient session fields, per client ----
    plc_state,       \* "new", "ready" (constructed) or "failed" (constructor raised)
    plc_sock,        \* self.sock is not None
    plc_session_id,  \* self.session_id
    plc_enip_connid, \* self.enip_connid
    plc_sequence,    \* self.sequence
    tx_units,        \* history: send_unit_cip calls made so far
    tx_handle,       \* history: session handle of the RegisterSession reply
    tx_connid,       \* history: connection id of the latest good ForwardOpen reply
    tx_last,         \* history: the last call made on any client
    \* ---- AssemblyConfigService.update_attributes ----
    up_pc,           \* "entry" | "read" | "write" | "rollback" | "done"
    up_values,       \* values, as <<name, value>> pairs in iteration order
    up_rollback,     \* rollback_on_partial
    up_dev,          \* the device: payload of each attribute
    up_pre,          \* history: the device when the call was made
    up_originals,    \* originals, in the order read
    up_applied,      \* applied
    up_undo,         \* what is left of reversed(applied)
    up_failed,       \* name and status of the write that failed
    up_log,          \* history: the set_attribute calls made, in order
    up_result,       \* what the call returned or raised
    \* ---- HTTP adapter, session routes ----
    http_pc,         \* "request" | "called" | "responded"
    http_route,      \* the route function serving the request
    http_error,      \* what the orchestrator call returned or raised
    http_status,     \* status code of the response
    http_cip_status, \* request.state.cip_status set by an except clause
    \* ---- PLCClient.get_list_of_instances ----
    gi_pc,           \* "send" | "recv" | "done"
    gi_sock,         \* self.sock is not None
    gi_start,        \* start_instance
    gi_list,         \* inst_list
    gi_requests,     \* instance ids of the requests made, in order
    gi_replies,      \* replies received, in order
    gi_result,       \* what the call returned or raised
    \* ---- SessionHandle.last_activity_at ----
    act_clock,       \* time.time()
    act_last,        \* handle.last_activity_at
    act_pc,          \* per thread: "idle" | "running" | "timed" | "marked"
    act_begin,       \* per thread: the time its operation started
    act_time,        \* per thread: the value time.time() gave it
    \* ---- worker sets and runtime reload ----
    rc_config,       \* IORuntime._assemblies: direction of each alias
    rc_gen,          \* how many times the records have been rebuilt
    rc_sessions,     \* SessionOrchestrator._sessions, in insertion order
    rc_started,      \* how many sessions have been started
    rc_loops,        \* SessionOrchestrator._session_loops
    rc_events,       \* every stop event created: is it set
    rc_threads,      \* every worker thread started
    rc_pc,           \* per thread: "run" | "got" | "done"
    rc_held,         \* per thread: the request it took from a queue
    rc_call,         \* the apply_configuration call in progress
    rc_queue,        \* pending_outputs of every record ever built
    rc_req,          \* per request: free, queued, taken, ok, error
    rc_writer,       \* the write_assembly caller
    rc_starting,     \* the session start_session has registered, loops not yet started
    \* ---- PLCConnectionPool used by several threads ----
    pr_pc,           \* per thread: where it is inside acquire / release
    pr_held,         \* per thread: the client acquire gave it
    pr_seen,         \* per thread: the value of _created it read for +=
    pr_built         \* PLCClient objects constructed so far

poolVars == <<pool_max_size, pool_clients, pool_created, pool_issued, pool_result>>

tagVars == <<tag_total, tag_connected, tag_pc, tag_offset, tag_remaining,
             tag_chunks, tag_last_status, tag_requests, tag_replies, tag_result>>

clientVars == <<cl_pc, cl_sock, cl_session_id, cl_sequence, cl_calls, cl_op,
                cl_result, rx_stream, rx_avail, rx_open, rx_pos, rx_header,
                rx_payload, rx_asked, rx_reads, rx_short, rx_last>>

orchVars == <<o_deploy, o_pc, o_loc, o_sessions, o_next_sid, o_client, o_loops,
              o_stop, o_iolock, o_reglock, o_wire, o_result, o_logged, rt_lock,
              rt_ts, rt_queue, rt_req>>

sessVars == <<plc_state, plc_sock, plc_session_id, plc_enip_connid, plc_sequence,
              tx_units, tx_handle, tx_connid, tx_last>>

updVars == <<up_pc, up_values, up_rollback, up_dev, up_pre, up_originals,
             up_applied, up_undo, up_failed, up_log, up_result>>

httpVars == <<http_pc, http_route, http_error, http_status, http_cip_status>>

coreVars == <<poolVars, tagVars, clientVars, orchVars, sessVars>>

instVars == <<gi_pc, gi_sock, gi_start, gi_list, gi_requests, gi_replies, gi_result>>

actVars == <<act_clock, act_last, act_pc, act_begin, act_time>>

reloadVars ==
    <<rc_config, rc_gen, rc_sessions, rc_started, rc_loops, rc_events,
      rc_threads, rc_pc, rc_held, rc_call, rc_queue, rc_req, rc_writer>>

raceVars == <<rc_starting, pr_pc, pr_held, pr_seen, pr_built>>

lateVars == <<updVars, httpVars, instVars, actVars, reloadVars, raceVars>>

vars == <<coreVars, lateVars>>

\* The variables of the other components, left alone by a component's actions.
NotPool == <<tagVars, clientVars, orchVars, sessVars, lateVars>>
NotTag == <<poolVars, clientVars, orchVars, sessVars, lateVars>>
NotClient == <<poolVars, tagVars, orchVars, sessVars, lateVars>>
NotOrch == <<tagVars, clientVars, sessVars, pool_max_size, pool_result, lateVars>>
NotSess == <<poolVars, tagVars, clientVars, orchVars, lateVars>>
NotUpd == <<coreVars, httpVars, instVars, actVars, reloadVars, raceVars>>
NotHttp == <<coreVars, updVars, instVars, actVars, reloadVars, raceVars>>
NotInst == <<coreVars, updVars, httpVars, actVars, reloadVars, raceVars>>
NotAct == <<coreVars, updVars, httpVars, instVars, reloadVars, raceVars>>
NotReload == <<coreVars, updVars, httpVars, instVars, actVars, raceVars>>
NotLoopsRace ==
    <<coreVars, updVars, httpVars, instVars, actVars, pr_pc, pr_held, pr_seen, pr_built>>
NotPoolRace ==
    <<tagVars, clientVars, orchVars, sessVars, pool_max_size, pool_issued,
      pool_result, updVars, httpVars, instVars, actVars, reloadVars, rc_starting>>

Max(a, b) == IF a >= b THEN a ELSE b
Min(a, b) == IF a <= b THEN a ELSE b
Last(s) == s[Len(s)]
Front(s) == SubSeq(s, 1, Len(s) - 1)

RECURSIVE SumLen(_)
SumLen(ss) == IF ss = <<>> THEN 0 ELSE Len(ss[1]) + SumLen(Tail(ss))

RECURSIVE Concat(_)
Concat(ss) == IF ss = <<>> THEN <<>> ELSE ss[1] \o Concat(Tail(ss))

(***************************************************************************)
(* PLCConnectionPool                                                       *)
(***************************************************************************)

\* Largest max_size argument tried for a pool.
MaxPoolArg == 3

\* What constructing a PLCClient can do: the socket connects and the session is
\* registered; the connect fails and the client is left without a socket;
\* the registration send fails with an OSError; the codec raises.
CtorOutcomes == {"connected", "no_socket", "os_error", "scapy_error"}

NoPoolResult ==
    [op |-> "none", outcome |-> "none", client |-> 0, constructed |-> 0,
     pre_clients |-> <<>>, pre_created |-> 0]

\* PLCConnectionPool.__init__
PoolInit(max_size) ==
    /\ pool_max_size = Max(1, max_size)
    /\ pool_clients = <<>>
    /\ pool_created = 0
    /\ pool_issued = {}
    /\ pool_result = NoPoolResult

\* PLCConnectionPool._create_client: the new pool counter and what the call gives.
\* A client is identified by the value of the counter that counted it.
CreateClient(created, ctor) ==
    CASE ctor = "os_error" ->
           [created |-> created, outcome |-> "ConnectionError:open", client |-> 0]
      [] ctor = "scapy_error" ->
           [created |-> created, outcome |-> "CommunicationError", client |-> 0]
      [] ctor = "no_socket" ->
           [created |-> created + 1, outcome |-> "ConnectionError:not_connected",
            client |-> 0]
      [] OTHER ->
           [created |-> created + 1, outcome |-> "client", client |-> created + 1]

AcquirePopHead(clients, created, max_size, ctor) ==
    IF clients # <<>>
    THEN [clients |-> Tail(clients), created |-> created,
          outcome |-> "client", client |-> Head(clients), constructed |-> 0]
    ELSE IF created >= max_size
    THEN [clients |-> clients, created |-> created,
          outcome |-> "ConnectionError:exhausted", client |-> 0, constructed |-> 0]
    ELSE LET r == CreateClient(created, ctor)
         IN [clients |-> clients, created |-> r.created,
             outcome |-> r.outcome, client |-> r.client, constructed |-> 1]

\* PLCConnectionPool.acquire
PoolAcquire(clients, created, max_size, ctor) ==
    IF clients # <<>>
    THEN [clients |-> Front(clients), created |-> created,
          outcome |-> "client", client |-> Last(clients), constructed |-> 0]
    ELSE IF created >= max_size
    THEN [clients |-> clients, created |-> created,
          outcome |-> "ConnectionError:exhausted", client |-> 0, constructed |-> 0]
    ELSE LET r == CreateClient(created, ctor)
         IN [clients |-> clients, created |-> r.created,
             outcome |-> r.outcome, client |-> r.client, constructed |-> 1]

ReleaseUnbounded(clients, max_size, c) == Append(clients, c)

\* PLCConnectionPool.release
PoolRelease(clients, max_size, c) ==
    IF Len(clients) < max_size THEN Append(clients, c) ELSE clients

\* One acquire call on the pool.
Acquire ==
    \E ctor \in CtorOutcomes :
        LET r == PoolAcquire(pool_clients, pool_created, pool_max_size, ctor)
        IN /\ pool_clients' = r.clients
           /\ pool_created' = r.created
           /\ pool_issued' = IF r.outcome = "client"
                             THEN pool_issued \cup {r.client} ELSE pool_issued
           /\ pool_result' = [op |-> "acquire", outcome |-> r.outcome,
                              client |-> r.client, constructed |-> r.constructed,
                              pre_clients |-> pool_clients,
                              pre_created |-> pool_created]
           /\ UNCHANGED <<pool_max_size, NotPool>>

\* One release call on the pool; the caller passes a client it once acquired.
Release ==
    \E c \in pool_issued :
        /\ pool_clients' = PoolRelease(pool_clients, pool_max_size, c)
        /\ pool_result' = [op |-> "release", outcome |-> "none", client |-> c,
                           constructed |-> 0, pre_clients |-> pool_clients,
                           pre_created |-> pool_created]
        /\ UNCHANGED <<pool_max_size, pool_created, pool_issued, NotPool>>

\* C6: the number of clients ever created and the number of idle clients never
\* exceed max_size, and a release into a full idle list leaves the pool unchanged.
PoolBounded ==
    /\ pool_created <= pool_max_size
    /\ Len(pool_clients) <= pool_max_size
    /\ (pool_result.op = "release" /\ Len(pool_result.pre_clients) >= pool_max_size)
          => (pool_clients = pool_result.pre_clients
              /\ pool_created = pool_result.pre_created)

\* A release has just been dropped because the idle list was full.
PoolReleaseDropped ==
    /\ pool_result.op = "release"
    /\ Len(pool_result.pre_clients) = pool_max_size
    /\ pool_created = pool_max_size

\* C7: acquire hands out the most recently released idle client without
\* constructing; constructs exactly one client when nothing is idle and
\* created < max_size; fails with "pool exhausted" when nothing is idle and
\* created = max_size, constructing nothing and changing nothing.
AcquireContract ==
    /\ (pool_result.op = "release" /\ Len(pool_result.pre_clients) < pool_max_size)
          => pool_clients = Append(pool_result.pre_clients, pool_result.client)
    /\ pool_result.op = "acquire" =>
          IF pool_result.pre_clients # <<>>
          THEN /\ pool_result.outcome = "client"
               /\ pool_result.client = Last(pool_result.pre_clients)
               /\ pool_result.constructed = 0
               /\ pool_clients = Front(pool_result.pre_clients)
               /\ pool_created = pool_result.pre_created
          ELSE IF pool_result.pre_created < pool_max_size
          THEN pool_result.constructed = 1
          ELSE /\ pool_result.outcome = "ConnectionError:exhausted"
               /\ pool_result.constructed = 0
               /\ pool_created = pool_result.pre_created
               /\ pool_clients = pool_result.pre_clients

\* An acquire has just failed on an exhausted pool.
PoolExhaustedSeen ==
    /\ pool_result.op = "acquire"
    /\ pool_result.outcome = "ConnectionError:exhausted"
    /\ pool_result.pre_clients = <<>>
    /\ pool_result.pre_created = pool_max_size

\* An acquire has just reused the later-released of two different idle clients.
PoolReuseSeen ==
    /\ pool_result.op = "acquire"
    /\ Len(pool_result.pre_clients) >= 2
    /\ pool_result.pre_clients[1] # Last(pool_result.pre_clients)
    /\ pool_result.client = Last(pool_result.pre_clients)

\* C37: an acquire that constructs a client which is not connected fails with
\* a ConnectionError and leaves created at the value it had before the call.
FailedConnectKeepsCapacity ==
    (/\ pool_result.op = "acquire"
     /\ pool_result.outcome = "ConnectionError:not_connected") =>
        pool_created = pool_result.pre_created

(***************************************************************************)
(* PLCManager._read_full_tag                                               *)
(***************************************************************************)

\* Largest total_size tried.
MaxTotal == 3

\* A reply may carry more bytes than were asked for.
MaxChunk == MaxTotal + 1

\* Byte values the PLC puts into payloads.
TagBytes == {17, 34}

\* CIP general status codes the PLC answers with: success, partial transfer,
\* and two failures.
TagStatuses == {0, 6, 5, 8}

\* CIPStatus() : no status code yet.
NoCode == -1

Payloads == UNION {[1..n -> TagBytes] : n \in 0..MaxChunk}

Replies == [status : TagStatuses, payload : Payloads]

NoTagResult == [kind |-> "none", data |-> <<>>, status |-> NoCode]

RequestFromZero(offset, remaining) == [start |-> 0, length |-> remaining]

\* CIP_ReqReadOtherTag(start=offset, length=remaining_size)
TagRequest(offset, remaining) == [start |-> offset, length |-> remaining]

VerdictEmptyPartialOk(status, payload, remaining) ==
    IF status = 0
    THEN IF Len(payload) # remaining THEN "size_error" ELSE "append"
    ELSE IF status = 6 THEN "append" ELSE "status_error"

\* The branch taken on a reply: keep the payload, or raise.
TagVerdict(status, payload, remaining) ==
    IF status = 0
    THEN IF Len(payload) # remaining THEN "size_error" ELSE "append"
    ELSE IF status = 6 /\ Len(payload) > 0 THEN "append" ELSE "status_error"

\* The loop head, then the send of the next request (which may time out).
TagLoop ==
    /\ tag_pc = "loop"
    /\ IF tag_remaining > 0
       THEN \/ /\ tag_requests' =
                      IF tag_connected
                      THEN Append(tag_requests, TagRequest(tag_offset, tag_remaining))
                      ELSE tag_requests
               /\ tag_pc' = "recv"
               /\ UNCHANGED tag_result
            \/ /\ tag_connected
               /\ tag_pc' = "failed"
               /\ tag_result' = [kind |-> "ConnectionError", data |-> <<>>,
                                 status |-> NoCode]
               /\ UNCHANGED tag_requests
       ELSE /\ tag_pc' = "done"
            /\ tag_result' = [kind |-> "return", data |-> Concat(tag_chunks),
                              status |-> tag_last_status]
            /\ UNCHANGED tag_requests
    /\ UNCHANGED <<tag_total, tag_connected, tag_offset, tag_remaining,
                   tag_chunks, tag_last_status, tag_replies, NotTag>>

\* recv_enippkt returns None: the client has no socket.
TagRecvNone ==
    /\ tag_pc = "recv"
    /\ ~tag_connected
    /\ tag_pc' = "failed"
    /\ tag_result' = [kind |-> "ResponseError", data |-> <<>>, status |-> NoCode]
    /\ UNCHANGED <<tag_total, tag_connected, tag_offset, tag_remaining,
                   tag_chunks, tag_last_status, tag_requests, tag_replies, NotTag>>

\* recv_enippkt raises: the socket timed out or was closed.
TagRecvFails ==
    /\ tag_pc = "recv"
    /\ tag_connected
    /\ tag_pc' = "failed"
    /\ tag_result' = [kind |-> "ConnectionError", data |-> <<>>, status |-> NoCode]
    /\ UNCHANGED <<tag_total, tag_connected, tag_offset, tag_remaining,
                   tag_chunks, tag_last_status, tag_requests, tag_replies, NotTag>>

\* A reply arrives and is handled.
TagRecvReply ==
    /\ tag_pc = "recv"
    /\ tag_connected
    /\ \E r \in Replies :
        LET v == TagVerdict(r.status, r.payload, tag_remaining)
        IN /\ tag_replies' = Append(tag_replies, r)
           /\ tag_last_status' = r.status
           /\ IF v = "append"
              THEN /\ tag_chunks' = Append(tag_chunks, r.payload)
                   /\ tag_offset' = tag_offset + Len(r.payload)
                   /\ tag_remaining' = tag_remaining - Len(r.payload)
                   /\ tag_pc' = "loop"
                   /\ UNCHANGED tag_result
              ELSE /\ tag_pc' = "failed"
                   /\ tag_result' = [kind |-> "ResponseError", data |-> <<>>,
                                     status |-> r.status]
                   /\ UNCHANGED <<tag_chunks, tag_offset, tag_remaining>>
    /\ UNCHANGED <<tag_total, tag_connected, tag_requests, NotTag>>

\* Entry of _read_full_tag(client, class_id, instance_id, total_size).
TagCall(total_size, connected) ==
    /\ tag_total = total_size
    /\ tag_connected = connected
    /\ tag_pc = "loop"
    /\ tag_offset = 0
    /\ tag_remaining = total_size
    /\ tag_chunks = <<>>
    /\ tag_last_status = NoCode
    /\ tag_requests = <<>>
    /\ tag_replies = <<>>
    /\ tag_result = NoTagResult

TagPayloads(S) == [i \in 1..Len(S) |-> S[i].payload]

\* Every exchange so far delivered a reply.
TagDelivered == tag_connected /\ tag_result.kind # "ConnectionError"

\* The reply sequences of claim C4 as stated: every reply but the last is a
\* non-empty partial transfer, the last has status 0, the lengths sum to total.
TagScriptAsStated(S, total) ==
    /\ total > 0
    /\ S # <<>>
    /\ \A i \in 1..(Len(S) - 1) : S[i].status = 6 /\ S[i].payload # <<>>
    /\ Last(S).status = 0
    /\ SumLen(TagPayloads(S)) = total

\* The same, with a last reply that carries at least one byte.
TagScript(S, total) ==
    /\ TagScriptAsStated(S, total)
    /\ Last(S).payload # <<>>

\* The call consumed exactly the replies S, asked request k for the bytes still
\* missing from the offset reached, and returned their concatenation with code 0.
TagReturned(S) ==
    /\ tag_replies = S
    /\ tag_pc = "done"
    /\ tag_result.kind = "return"
    /\ tag_result.data = Concat(TagPayloads(S))
    /\ Len(tag_result.data) = tag_total
    /\ tag_result.status = 0
    /\ Len(tag_requests) = Len(S)
    /\ \A k \in 1..Len(S) :
          LET got == SumLen(SubSeq(TagPayloads(S), 1, k - 1))
          IN tag_requests[k] = [start |-> got, length |-> tag_total - got]

\* The replies the PLC may still hold after the ones consumed: none, or one.
TagUnread == {<<>>} \cup {<<r>> : r \in Replies}

\* C4 as stated: for every reply sequence of the stated shape the call returns
\* the concatenation of all its payloads with status code 0.
SegmentedReadAsStated ==
    (tag_pc \in {"done", "failed"} /\ TagDelivered) =>
        \A rest \in TagUnread :
            TagScriptAsStated(tag_replies \o rest, tag_total)
                => TagReturned(tag_replies \o rest)

\* C4 (amended): when in addition the last reply is non-empty, the call ends
\* after the last reply, request k has start = bytes received and length = bytes
\* missing, and the result is the in-order concatenation with status code 0.
SegmentedRead ==
    /\ (tag_pc \in {"done", "failed"} /\ TagDelivered) =>
          \A rest \in TagUnread :
              TagScript(tag_replies \o rest, tag_total)
                  => TagReturned(tag_replies \o rest)
    /\ (TagDelivered /\ TagScript(tag_replies, tag_total)) =>
          /\ Len(tag_requests) = Len(tag_replies)
          /\ tag_pc = "done" \/ (tag_pc = "loop" /\ tag_remaining = 0)

\* A read assembled from three replies has returned.
SegmentedReadDone ==
    /\ tag_pc = "done"
    /\ Len(tag_replies) = 3
    /\ TagScript(tag_replies, tag_total)

\* Reply k is one the loop rejects: status 0 with a length other than the
\* length asked for, an empty partial transfer, or any other status.
TagOffending(k) ==
    LET r == tag_replies[k]
    IN \/ r.status = 0 /\ Len(r.payload) # tag_requests[k].length
       \/ r.status = 6 /\ r.payload = <<>>
       \/ r.status \notin {0, 6}

\* C5: an offending reply ends the call with a ResponseError carrying that
\* reply's status, no data, and no request after it.
TagAbortsOnBadReply ==
    \A k \in 1..Len(tag_replies) :
        TagOffending(k) =>
            /\ k = Len(tag_replies)
            /\ Len(tag_requests) = k
            /\ tag_pc = "failed"
            /\ tag_result = [kind |-> "ResponseError", data |-> <<>>,
                             status |-> tag_replies[k].status]

\* The second reply was an empty partial transfer and the call has failed.
TagAbortSeen ==
    /\ Len(tag_replies) = 2
    /\ tag_replies[2].status = 6
    /\ tag_replies[2].payload = <<>>
    /\ tag_pc = "failed"

\* C36: offset + remaining = total_size throughout, an iteration is entered
\* only with remaining > 0, a returned payload has exactly total_size bytes
\* even after a partial reply longer than the request, and for
\* total_size = 0 the call returns an empty payload and no status code
\* without sending a request.
ReadReturnsTotalSize ==
    /\ tag_offset + tag_remaining = tag_total
    /\ tag_pc = "recv" => tag_remaining > 0
    /\ tag_pc = "done" =>
          /\ tag_result.kind = "return"
          /\ Len(tag_result.data) = tag_total
    /\ (tag_total = 0 /\ tag_pc = "done") =>
          /\ tag_requests = <<>>
          /\ tag_result = [kind |-> "return", data |-> <<>>, status |-> NoCode]

(***************************************************************************)
(* PLCClient: construction, send helpers, recv_enippkt                     *)
(***************************************************************************)

\* Longest command-specific payload of a frame the peer sends.
MaxPayload == 2

\* Send helper calls made on one client.
MaxCalls == 1

\* recv_enippkt: expected_header
ExpectedHeader == 24

U16(n) == <<n % 256, (n \div 256) % 256>>
U32(n) == <<n % 256, (n \div 256) % 256, (n \div 65536) % 256, (n \div 16777216) % 256>>

RECURSIVE LE(_)
LE(bytes) == IF bytes = <<>> THEN 0 ELSE bytes[1] + 256 * LE(Tail(bytes))

\* ENIP_TCP: command, length, session handle, status, sender context, options,
\* then `length` bytes of payload; integers little-endian.
EncodeFrame(f) ==
    U16(f.command) \o U16(Len(f.payload)) \o U32(f.session) \o U32(f.status)
        \o f.context \o U32(f.options) \o f.payload

\* ENIP_TCP(pktbytes)
DecodeFrame(bytes) ==
    [command |-> LE(SubSeq(bytes, 1, 2)),
     length  |-> LE(SubSeq(bytes, 3, 4)),
     session |-> LE(SubSeq(bytes, 5, 8)),
     status  |-> LE(SubSeq(bytes, 9, 12)),
     context |-> SubSeq(bytes, 13, 20),
     options |-> LE(SubSeq(bytes, 21, 24)),
     payload |-> SubSeq(bytes, 25, Len(bytes))]

FramePayloads == UNION {[1..n -> {17, 34}] : n \in 0..MaxPayload}

\* The ENIP command of the reply to a call: RegisterSession, SendUnitData,
\* SendRRData.
ReplyCommand(op) == IF op = "ctor" THEN 101 ELSE IF op = "unit" THEN 112 ELSE 111

\* The frames the peer answers a call with.
Frames(op) ==
    {EncodeFrame([command |-> ReplyCommand(op), session |-> sid, status |-> 0,
                  context |-> <<1, 2, 3, 4, 5, 6, 7, 8>>, options |-> 0,
                  payload |-> p]) :
        sid \in {1, 4660}, p \in FramePayloads}

\* First bytes of whatever the peer sends after the frame.
NextFrameStart == <<112, 0>>

SendContext(op) ==
    IF op = "unit" THEN <<"sending", "connected", "CIP", "request">>
    ELSE <<"sending", "CIP", "request">>

HeaderContext == <<"waiting", "for", "ENIP", "header">>
PayloadContext == <<"waiting", "for", "ENIP", "payload">>

TimedOutNoContext(context) ==
    [kind |-> "ConnectionError", msg |-> <<"Timed", "out">>, frame |-> <<>>]

\* PLCConnectionError(f"Timed out while {context}")
TimedOut(context) ==
    [kind |-> "ConnectionError", msg |-> <<"Timed", "out", "while">> \o context,
     frame |-> <<>>]

HeaderClosed ==
    [kind |-> "ConnectionError",
     msg |-> <<"Socket", "closed", "while", "reading", "ENIP", "header">>,
     frame |-> <<>>]

PayloadClosedAsHeader ==
    [kind |-> "ConnectionError",
     msg |-> <<"Socket", "closed", "while", "reading", "ENIP", "header">>,
     frame |-> <<>>]

PayloadClosed ==
    [kind |-> "ConnectionError",
     msg |-> <<"Socket", "closed", "before", "ENIP", "payload", "was", "fully",
               "received">>,
     frame |-> <<>>]

NoResult == [kind |-> "none", msg |-> <<>>, frame |-> <<>>]

RecvSizeWhole(expected, have) == expected

\* The size passed to _recv: expected - len(buffer).
RecvSize(expected, have) == expected - have

PayloadLengthLow(header) == header[3]

\* struct.unpack_from("<H", header, 2)[0]
PayloadLength(header) == header[3] + 256 * header[4]

\* Bytes the peer can still deliver.
RxLeft == rx_avail - rx_pos

\* The call ends: the constructor raises (no client), a helper raises or returns.
Raise(result) ==
    /\ cl_result' = result
    /\ cl_pc' = IF cl_op = "ctor" THEN "raised" ELSE "idle"

\* PLCClient.__init__: socket.create_connection.
ClientConnect ==
    /\ cl_pc = "new"
    /\ \/ /\ cl_sock' = TRUE
          /\ cl_pc' = "register"
       \/ /\ cl_sock' = FALSE
          /\ cl_pc' = "idle"
    /\ cl_session_id' = 0
    /\ cl_sequence' = 1
    /\ cl_op' = "ctor"
    /\ UNCHANGED <<cl_calls, cl_result, rx_stream, rx_avail, rx_open, rx_pos,
                   rx_header, rx_payload, rx_asked, rx_reads, rx_short, rx_last,
                   NotClient>>

\* No recv_enippkt has run since the last send.
RxReset ==
    /\ rx_stream' = <<>>
    /\ rx_avail' = 0
    /\ rx_open' = FALSE
    /\ rx_pos' = 0
    /\ rx_header' = <<>>
    /\ rx_payload' = <<>>
    /\ rx_asked' = 0
    /\ rx_reads' = 0
    /\ rx_short' = {}

\* PLCClient.__init__: self.sock.send(bytes(sessionpkt)), not through _sendall.
RegisterSend ==
    /\ cl_pc = "register"
    /\ \/ /\ cl_pc' = "recv"
          /\ rx_last' = [call |-> "register", what |-> "sent"]
          /\ UNCHANGED cl_result
       \/ /\ cl_pc' = "raised"
          /\ cl_result' = [kind |-> "socket.timeout", msg |-> <<>>, frame |-> <<>>]
          /\ rx_last' = [call |-> "register", what |-> "timeout"]
    /\ UNCHANGED <<cl_sock, cl_session_id, cl_sequence, cl_calls, cl_op,
                   rx_stream, rx_avail, rx_open, rx_pos, rx_header, rx_payload,
                   rx_asked, rx_reads, rx_short, NotClient>>

\* send_rr_cip, send_rr_cm_cip, send_rr_mr_cip, send_unit_cip, each followed by
\* the caller's recv_enippkt; the request goes out through _sendall.
ClientSend(op) ==
    /\ cl_pc = "idle"
    /\ cl_calls < MaxCalls
    /\ cl_calls' = cl_calls + 1
    /\ cl_op' = op
    /\ cl_sequence' = IF op = "unit" THEN cl_sequence + 1 ELSE cl_sequence
    /\ RxReset
    /\ IF ~cl_sock
       THEN /\ cl_result' = [kind |-> "None", msg |-> <<>>, frame |-> <<>>]
            /\ rx_last' = [call |-> "send", what |-> "skipped"]
            /\ UNCHANGED cl_pc
       ELSE \/ /\ cl_pc' = "recv"
               /\ cl_result' = NoResult
               /\ rx_last' = [call |-> "send", what |-> "sent"]
            \/ /\ cl_result' = TimedOut(SendContext(op))
               /\ rx_last' = [call |-> "send", what |-> "timeout"]
               /\ UNCHANGED cl_pc
    /\ UNCHANGED <<cl_sock, cl_session_id, NotClient>>

\* Entry of recv_enippkt on a client with a socket; the peer has chosen the
\* frame it answers with, how much of its data it sends, and whether it then
\* closes the connection.
RecvEnter ==
    /\ cl_pc = "recv"
    /\ cl_pc' = "header"
    /\ \E f \in Frames(cl_op) :
        /\ rx_stream' = f \o NextFrameStart
        /\ \E n \in 0..(Len(f) + Len(NextFrameStart)) : rx_avail' = n
    /\ rx_open' \in BOOLEAN
    /\ rx_pos' = 0
    /\ rx_header' = <<>>
    /\ rx_payload' = <<>>
    /\ rx_asked' = 0
    /\ rx_reads' = 0
    /\ rx_short' = {}
    /\ UNCHANGED <<cl_sock, cl_session_id, cl_sequence, cl_calls, cl_op,
                   cl_result, rx_last, NotClient>>

\* recv_enippkt hands the frame to its caller.
Deliver(bytes) ==
    /\ cl_pc' = "idle"
    /\ cl_result' = [kind |-> "frame", msg |-> <<>>, frame |-> bytes]
    /\ cl_session_id' = IF cl_op = "ctor" THEN DecodeFrame(bytes).session
                        ELSE cl_session_id

\* recv_enippkt, header loop: one _recv(expected_header - len(header)).
RecvHeader ==
    /\ cl_pc = "header"
    /\ LET size == RecvSize(ExpectedHeader, Len(rx_header))
       IN /\ rx_asked' = Max(rx_asked, rx_pos + size)
          /\ \/ \E n \in 1..Min(size, RxLeft) :
                  LET header == rx_header \o SubSeq(rx_stream, rx_pos + 1, rx_pos + n)
                  IN /\ rx_header' = header
                     /\ rx_pos' = rx_pos + n
                     /\ rx_short' = IF n < size THEN rx_short \cup {"header"}
                                    ELSE rx_short
                     /\ rx_last' = [call |-> "header", what |-> "data"]
                     /\ IF Len(header) < ExpectedHeader
                        THEN UNCHANGED <<cl_pc, cl_result, cl_session_id>>
                        ELSE IF PayloadLength(header) > 0
                        THEN /\ cl_pc' = "payload"
                             /\ UNCHANGED <<cl_result, cl_session_id>>
                        ELSE Deliver(header)
             \/ /\ RxLeft = 0
                /\ ~rx_open
                /\ Raise(HeaderClosed)
                /\ rx_last' = [call |-> "header", what |-> "closed"]
                /\ UNCHANGED <<rx_header, rx_pos, rx_short, cl_session_id>>
             \/ /\ Raise(TimedOut(HeaderContext))
                /\ rx_last' = [call |-> "header", what |-> "timeout"]
                /\ UNCHANGED <<rx_header, rx_pos, rx_short, cl_session_id>>
    /\ UNCHANGED <<cl_sock, cl_sequence, cl_calls, cl_op, rx_stream, rx_avail,
                   rx_open, rx_payload, rx_reads, NotClient>>

\* recv_enippkt, payload loop: one _recv(payload_length - len(payload)).
RecvPayload ==
    /\ cl_pc = "payload"
    /\ LET length == PayloadLength(rx_header)
           size == RecvSize(length, Len(rx_payload))
       IN /\ rx_asked' = Max(rx_asked, rx_pos + size)
          /\ rx_reads' = rx_reads + 1
          /\ \/ \E n \in 1..Min(size, RxLeft) :
                  LET payload == rx_payload \o SubSeq(rx_stream, rx_pos + 1, rx_pos + n)
                  IN /\ rx_payload' = payload
                     /\ rx_pos' = rx_pos + n
                     /\ rx_short' = IF n < size THEN rx_short \cup {"payload"}
                                    ELSE rx_short
                     /\ rx_last' = [call |-> "payload", what |-> "data"]
                     /\ IF Len(payload) < length
                        THEN UNCHANGED <<cl_pc, cl_result, cl_session_id>>
                        ELSE Deliver(rx_header \o payload)
             \/ /\ RxLeft = 0
                /\ ~rx_open
                /\ Raise(PayloadClosed)
                /\ rx_last' = [call |-> "payload", what |-> "closed"]
                /\ UNCHANGED <<rx_payload, rx_pos, rx_short, cl_session_id>>
             \/ /\ Raise(TimedOut(PayloadContext))
                /\ rx_last' = [call |-> "payload", what |-> "timeout"]
                /\ UNCHANGED <<rx_payload, rx_pos, rx_short, cl_session_id>>
    /\ UNCHANGED <<cl_sock, cl_sequence, cl_calls, cl_op, rx_stream, rx_avail,
                   rx_open, rx_header, NotClient>>

\* Before PLCClient(...) runs.
ClientNew ==
    /\ cl_pc = "new"
    /\ cl_sock = FALSE
    /\ cl_session_id = 0
    /\ cl_sequence = 1
    /\ cl_calls = 0
    /\ cl_op = "ctor"
    /\ cl_result = NoResult
    /\ rx_stream = <<>>
    /\ rx_avail = 0
    /\ rx_open = FALSE
    /\ rx_pos = 0
    /\ rx_header = <<>>
    /\ rx_payload = <<>>
    /\ rx_asked = 0
    /\ rx_reads = 0
    /\ rx_short = {}
    /\ rx_last = [call |-> "none", what |-> "none"]

\* The frame the peer is sending, and where it ends in the stream.
TheFrame == SubSeq(rx_stream, 1, Len(rx_stream) - Len(NextFrameStart))
FrameEnd == Len(TheFrame)

\* The message contains the word.
Names(msg, word) == \E i \in 1..Len(msg) : msg[i] = word

\* C8: whatever the chunking, recv_enippkt returns the original frame, asks the
\* socket for exactly the 24 header bytes and the payload bytes the length field
\* announces, never reaches past the end of the frame, and makes no payload read
\* when the length is 0; it fails only if the peer stops short or a recv times out.
RecvReassembles ==
    /\ rx_stream # <<>> => rx_asked <= FrameEnd
    /\ cl_result.kind = "frame" =>
          /\ cl_result.frame = TheFrame
          /\ EncodeFrame(DecodeFrame(cl_result.frame)) = TheFrame
          /\ Len(rx_header) = ExpectedHeader
          /\ Len(rx_payload) = DecodeFrame(TheFrame).length
          /\ rx_pos = FrameEnd
          /\ rx_asked = FrameEnd
          /\ DecodeFrame(TheFrame).length = 0 => rx_reads = 0
    /\ (cl_result.kind = "ConnectionError" /\ rx_last.call \in {"header", "payload"})
          => (rx_last.what = "timeout" \/ rx_avail < FrameEnd)

\* A frame with a payload came back although both loops saw short reads.
RecvReassembled ==
    /\ cl_result.kind = "frame"
    /\ cl_op # "ctor"
    /\ rx_short = {"header", "payload"}
    /\ rx_reads = MaxPayload

\* C9: an empty read before the header or the payload is complete fails with a
\* ConnectionError naming "header" or "payload" respectively, and no partially
\* received frame is ever returned.
RecvPrematureClose ==
    /\ (rx_last = [call |-> "header", what |-> "closed"]) =>
          /\ cl_result.kind = "ConnectionError"
          /\ Names(cl_result.msg, "header") /\ ~Names(cl_result.msg, "payload")
          /\ cl_result.frame = <<>>
          /\ cl_pc \in {"idle", "raised"}
    /\ (rx_last = [call |-> "payload", what |-> "closed"]) =>
          /\ cl_result.kind = "ConnectionError"
          /\ Names(cl_result.msg, "payload") /\ ~Names(cl_result.msg, "header")
          /\ cl_result.frame = <<>>
          /\ cl_pc \in {"idle", "raised"}
    /\ cl_result.kind = "frame" =>
          /\ rx_avail >= FrameEnd
          /\ Len(cl_result.frame) = ExpectedHeader + PayloadLength(rx_header)

\* The peer closed after part of the payload had arrived.
RecvClosedMidPayload ==
    /\ rx_last = [call |-> "payload", what |-> "closed"]
    /\ Len(rx_payload) >= 1
    /\ cl_result.kind = "ConnectionError"

MaxSends == 3

\* send_unit_cip calls explored on the one client of SpecSeq.
MaxSeqCalls == 65537

ClientIds == {1, 2}

\* OT_network_connection_id values a ForwardOpen reply carries; NoId when the
\* reply has none, and before any reply.
ConnIds == {1, 305419896}
NoId == -1

\* CIP general status of a ForwardOpen reply.
StatusCodes == {0, 6}

\* The connected-packet item's sequence field is a u16.
SeqModulus == 65536

\* No reply read.
NoReply == [status |-> NoId, connid |-> NoId]

\* The last call on a client: the values placed in the frame, the bytes handed
\* to the socket (empty when nothing was sent), how the call ended and, for a
\* ForwardOpen, how the exchange went, the reply read and enip_connid before.
NoCall ==
    [client |-> 0, op |-> "none", session |-> NoId, connid |-> NoId,
     sequence |-> NoId, wire |-> <<>>, outcome |-> "none", error |-> "none",
     status |-> NoId, exchange |-> "none", reply |-> NoReply, before |-> NoId]

\* ENIP_TCP(session=self.session_id)
SessionFieldZero(c) == 0
SessionField(c) == plc_session_id[c]

\* ENIP_ConnectionAddress(connection_id=self.enip_connid)
ConnectionAddressInitial(c) == 0
ConnectionAddress(c) == plc_enip_connid[c]

\* ENIP_ConnectionPacket(sequence=self.sequence)
ConnectionPacket(c) == plc_sequence[c]

\* self.sequence += 1
NextSequenceKept(n) == n
NextSequence(n) == n + 1

\* Bodies of the connected-address and connected-packet items of SendUnitData.
UnitItems(connid, sequence) == U32(connid) \o U16(sequence)

\* bytes(enippkt) of send_rr_cip
RRFrame(session) ==
    EncodeFrame([command |-> 111, session |-> session, status |-> 0,
                 context |-> <<0, 0, 0, 0, 0, 0, 0, 0>>, options |-> 0,
                 payload |-> <<>>])

\* bytes(enippkt) of send_unit_cip
UnitFrame(session, connid, sequence) ==
    EncodeFrame([command |-> 112, session |-> session, status |-> 0,
                 context |-> <<0, 0, 0, 0, 0, 0, 0, 0>>, options |-> 0,
                 payload |-> UnitItems(connid, sequence)])

\* What the peer reads in a frame.
WireSession(bytes) == DecodeFrame(bytes).session
WireConnid(bytes) == LE(SubSeq(DecodeFrame(bytes).payload, 1, 4))
WireSequence(bytes) == LE(SubSeq(DecodeFrame(bytes).payload, 5, 6))

\* Ways the PLCClient constructor ends.
CtorModes == {"offline", "no_socket", "registered", "recv_error"}

\* PLCClient.__init__
Construct(c) ==
    /\ plc_state[c] = "new"
    /\ \E mode \in CtorModes :
       \E f \in IF mode = "registered" THEN Frames("ctor") ELSE {<<>>} :
          /\ plc_state' = [plc_state EXCEPT
                              ![c] = IF mode = "recv_error" THEN "failed" ELSE "ready"]
          /\ plc_sock' = [plc_sock EXCEPT ![c] = mode \in {"registered", "recv_error"}]
          /\ plc_session_id' = [plc_session_id EXCEPT
                                   ![c] = IF mode = "offline" THEN 1
                                          ELSE IF mode = "registered"
                                          THEN DecodeFrame(f).session
                                          ELSE 0]
          /\ plc_enip_connid' = [plc_enip_connid EXCEPT
                                    ![c] = IF mode = "offline" THEN 1 ELSE 0]
          /\ plc_sequence' = [plc_sequence EXCEPT ![c] = 1]
          /\ tx_handle' = [tx_handle EXCEPT
                              ![c] = IF mode = "registered"
                                     THEN DecodeFrame(f).session ELSE NoId]
          /\ tx_last' = [NoCall EXCEPT
                            !.client = c, !.op = "ctor",
                            !.outcome = IF mode = "recv_error" THEN "raised" ELSE "ok",
                            !.error = IF mode = "recv_error"
                                      THEN "ConnectionError" ELSE "none"]
    /\ UNCHANGED <<tx_units, tx_connid, NotSess>>

\* How self._sendall(bytes(enippkt), ...) ends for a frame that encodes.
SendOutcomes(c) == IF plc_sock[c] THEN {"sent", "timeout"} ELSE {"skipped"}

\* send_rr_cip, and send_rr_cm_cip / send_rr_mr_cip which wrap and call it
RRCall(c, op, outcome) ==
    [NoCall EXCEPT
        !.client = c, !.op = op, !.session = SessionField(c),
        !.wire = IF outcome = "skipped" THEN <<>> ELSE RRFrame(SessionField(c)),
        !.outcome = outcome,
        !.error = IF outcome = "timeout" THEN "ConnectionError" ELSE "none"]

SendRR(c, op) ==
    /\ plc_state[c] = "ready"
    /\ \E outcome \in SendOutcomes(c) : tx_last' = RRCall(c, op, outcome)
    /\ UNCHANGED <<plc_state, plc_sock, plc_session_id, plc_enip_connid,
                   plc_sequence, tx_units, tx_handle, tx_connid, NotSess>>

\* How bytes(enippkt) and the send end in send_unit_cip: a sequence number
\* that does not fit the u16 field either makes the encoder raise or goes out
\* truncated.
UnitOutcomes(c) ==
    IF ~plc_sock[c] THEN {"skipped"}
    ELSE IF ConnectionPacket(c) < SeqModulus THEN {"sent", "timeout"}
    ELSE {"sent", "timeout", "encode_error"}

\* send_unit_cip
SendUnit(c, cap) ==
    /\ plc_state[c] = "ready"
    /\ tx_units[c] < cap
    /\ plc_sequence' = [plc_sequence EXCEPT ![c] = NextSequence(plc_sequence[c])]
    /\ tx_units' = [tx_units EXCEPT ![c] = tx_units[c] + 1]
    /\ \E outcome \in UnitOutcomes(c) :
          tx_last' =
              [NoCall EXCEPT
                  !.client = c, !.op = "unit", !.session = SessionField(c),
                  !.connid = ConnectionAddress(c),
                  !.sequence = ConnectionPacket(c),
                  !.wire = IF outcome \in {"skipped", "encode_error"} THEN <<>>
                           ELSE UnitFrame(SessionField(c), ConnectionAddress(c),
                                          ConnectionPacket(c)),
                  !.outcome = outcome,
                  !.error = IF outcome = "timeout" THEN "ConnectionError"
                            ELSE IF outcome = "encode_error" THEN "struct.error"
                            ELSE "none"]
    /\ UNCHANGED <<plc_state, plc_sock, plc_session_id, plc_enip_connid,
                   tx_handle, tx_connid, NotSess>>

\* What the peer answers a ForwardOpen with: general status and, when the
\* reply payload has one, the OT_network_connection_id.
ForwardOpenReplies == [status : StatusCodes, connid : ConnIds \cup {NoId}]

\* How client.send_rr_cip + client.recv_enippkt end, with the reply read.
ExchangeOutcomes(c) ==
    IF plc_sock[c]
    THEN {[exchange |-> "reply", reply |-> r] : r \in ForwardOpenReplies}
         \cup {[exchange |-> e, reply |-> NoReply] :
                   e \in {"send_timeout", "recv_error"}}
    ELSE {[exchange |-> "none", reply |-> NoReply]}

\* PLCManager._forward_open after the exchange: the error raised, if any.
ForwardOpenVerdictLax(exchange, reply) ==
    IF exchange \in {"send_timeout", "recv_error"} THEN "conn_error"
    ELSE IF exchange = "none" THEN "no_response"
    ELSE IF reply.connid = NoId THEN "no_connid"
    ELSE "ok"
ForwardOpenVerdict(exchange, reply) ==
    IF exchange \in {"send_timeout", "recv_error"} THEN "conn_error"
    ELSE IF exchange = "none" THEN "no_response"
    ELSE IF reply.status # 0 THEN "bad_status"
    ELSE IF reply.connid = NoId THEN "no_connid"
    ELSE "ok"

\* The exception class of each verdict.
VerdictError(verdict) ==
    IF verdict = "ok" THEN "none"
    ELSE IF verdict = "conn_error" THEN "ConnectionError"
    ELSE "ResponseError"

\* The status= argument of the PLCResponseError raised, and the CIPStatus
\* returned on success.
VerdictStatus(verdict, reply) ==
    IF verdict \in {"ok", "bad_status", "no_connid"} THEN reply.status ELSE NoId

\* PLCManager.start_session(client)
ManagerStartSession(c) ==
    /\ plc_state[c] = "ready"
    /\ \E x \in ExchangeOutcomes(c) :
          LET exchange == x.exchange
              reply == x.reply
              verdict == ForwardOpenVerdict(exchange, reply)
              sent == IF exchange = "none" THEN "skipped"
                      ELSE IF exchange = "send_timeout" THEN "timeout"
                      ELSE "sent"
          IN  /\ plc_enip_connid' =
                     [plc_enip_connid EXCEPT
                         ![c] = IF verdict = "ok" THEN reply.connid ELSE @]
              /\ tx_connid' = [tx_connid EXCEPT
                                  ![c] = IF exchange = "reply" /\ reply.status = 0
                                            /\ reply.connid # NoId
                                         THEN reply.connid ELSE @]
              /\ tx_last' = [RRCall(c, "start_session", sent) EXCEPT
                                !.exchange = exchange,
                                !.reply = reply,
                                !.before = plc_enip_connid[c],
                                !.outcome = verdict,
                                !.error = VerdictError(verdict),
                                !.status = VerdictStatus(verdict, reply)]
    /\ UNCHANGED <<plc_state, plc_sock, plc_session_id, plc_sequence, tx_units,
                   tx_handle, NotSess>>

\* PLCClient.forward_open: None without a socket, False on a non-zero status,
\* AssertionError when the payload is not a ForwardOpen response.
ClientForwardOpen(c) ==
    /\ plc_state[c] = "ready"
    /\ \E x \in ExchangeOutcomes(c) :
          LET exchange == x.exchange
              reply == x.reply
              verdict ==
                  IF exchange \in {"send_timeout", "recv_error"} THEN "conn_error"
                  ELSE IF exchange = "none" THEN "returned_none"
                  ELSE IF reply.status # 0 THEN "returned_false"
                  ELSE IF reply.connid = NoId THEN "assertion"
                  ELSE "ok"
              sent == IF exchange = "none" THEN "skipped"
                      ELSE IF exchange = "send_timeout" THEN "timeout"
                      ELSE "sent"
          IN  /\ plc_enip_connid' =
                     [plc_enip_connid EXCEPT
                         ![c] = IF verdict = "ok" THEN reply.connid ELSE @]
              /\ tx_connid' = [tx_connid EXCEPT
                                  ![c] = IF exchange = "reply" /\ reply.status = 0
                                            /\ reply.connid # NoId
                                         THEN reply.connid ELSE @]
              /\ tx_last' = [RRCall(c, "forward_open", sent) EXCEPT
                                !.exchange = exchange,
                                !.reply = reply,
                                !.before = plc_enip_connid[c],
                                !.outcome = verdict,
                                !.error = IF verdict = "conn_error"
                                          THEN "ConnectionError"
                                          ELSE IF verdict = "assertion"
                                          THEN "AssertionError" ELSE "none"]
    /\ UNCHANGED <<plc_state, plc_sock, plc_session_id, plc_sequence, tx_units,
                   tx_handle, NotSess>>

\* Before any PLCClient(...) runs.
SessNew ==
    /\ plc_state = [c \in ClientIds |-> "new"]
    /\ plc_sock = [c \in ClientIds |-> FALSE]
    /\ plc_session_id = [c \in ClientIds |-> 0]
    /\ plc_enip_connid = [c \in ClientIds |-> 0]
    /\ plc_sequence = [c \in ClientIds |-> 1]
    /\ tx_units = [c \in ClientIds |-> 0]
    /\ tx_handle = [c \in ClientIds |-> NoId]
    /\ tx_connid = [c \in ClientIds |-> NoId]
    /\ tx_last = NoCall

\* Calls that send a SendRRData or SendUnitData frame.
SendOps == {"rr", "rr_cm", "rr_mr", "unit", "start_session", "forward_open"}

\* C11: the session handle of the RegisterSession reply is the client's
\* session_id from then on, every SendRRData and SendUnitData frame sent
\* afterwards carries it in its session-handle field, and a client that never
\* registered keeps the session_id its constructor gave it.
SessionHandleKept ==
    /\ \A c \in ClientIds :
          IF tx_handle[c] # NoId THEN plc_session_id[c] = tx_handle[c]
          ELSE plc_session_id[c] \in {0, 1}
    /\ tx_last.op \in SendOps /\ tx_handle[tx_last.client] # NoId =>
          /\ tx_last.session = tx_handle[tx_last.client]
          /\ tx_last.wire # <<>> =>
                WireSession(tx_last.wire) = tx_handle[tx_last.client]

\* A SendUnitData frame went out with handle 0x1234 after a ForwardOpen and an
\* earlier SendUnitData.
SessionHandleSent ==
    /\ tx_last.op = "unit"
    /\ tx_last.outcome = "sent"
    /\ tx_handle[tx_last.client] = 4660
    /\ tx_connid[tx_last.client] # NoId
    /\ tx_units[tx_last.client] = 2

\* C12: once a ForwardOpen reply with status 0 and connection id c was read,
\* enip_connid is the c of the latest such reply and every send_unit_cip
\* carries it in the connected-address item; the first send_unit_cip of a
\* client carries sequence number 1.
ConnidFromForwardOpen ==
    /\ \A c \in ClientIds :
          tx_connid[c] # NoId => plc_enip_connid[c] = tx_connid[c]
    /\ tx_last.op = "unit" =>
          /\ tx_connid[tx_last.client] # NoId =>
                /\ tx_last.connid = tx_connid[tx_last.client]
                /\ tx_last.wire # <<>> =>
                      WireConnid(tx_last.wire) = tx_connid[tx_last.client]
          /\ tx_units[tx_last.client] = 1 =>
                /\ tx_last.sequence = 1
                /\ tx_last.wire # <<>> => WireSequence(tx_last.wire) = 1

\* The first send_unit_cip of a client went out after a ForwardOpen reply with
\* connection id 0x12345678.
FirstUnitAfterForwardOpen ==
    /\ tx_last.op = "unit"
    /\ tx_last.outcome = "sent"
    /\ tx_units[tx_last.client] = 1
    /\ tx_connid[tx_last.client] = 305419896

\* C13: start_session raises ResponseError with the reply's status when the
\* ForwardOpen reply has a non-zero status, and ResponseError when there is no
\* reply or the reply has no connection id; whenever it raises, enip_connid is
\* what it was before the call.
StartSessionFailure ==
    tx_last.op = "start_session" =>
        /\ tx_last.exchange = "reply" /\ tx_last.reply.status # 0 =>
              /\ tx_last.error = "ResponseError"
              /\ tx_last.status = tx_last.reply.status
        /\ tx_last.exchange = "none" => tx_last.error = "ResponseError"
        /\ tx_last.exchange = "reply" /\ tx_last.reply.connid = NoId =>
              tx_last.error = "ResponseError"
        /\ tx_last.error # "none" =>
              plc_enip_connid[tx_last.client] = tx_last.before

\* start_session failed on status 6 although the reply carried a connection
\* id other than the one an earlier ForwardOpen had stored.
StartSessionRefused ==
    /\ tx_last.op = "start_session"
    /\ tx_last.exchange = "reply"
    /\ tx_last.reply.status = 6
    /\ tx_last.reply.connid = 1
    /\ tx_last.before = 305419896

\* C14: a client's counter is 1 plus the number of its send_unit_cip calls, the
\* k-th of them carries k, and nothing else (a SendRRData call, a call on
\* another client) moves it.
SequenceCounts ==
    /\ \A c \in ClientIds : plc_sequence[c] = 1 + tx_units[c]
    /\ tx_last.op = "unit" =>
          /\ tx_last.sequence = tx_units[tx_last.client]
          /\ tx_last.wire # <<>> /\ tx_last.sequence < SeqModulus =>
                WireSequence(tx_last.wire) = tx_units[tx_last.client]

\* A SendRRData call on one client after three send_unit_cip calls on it and
\* one on the other client.
SequencesApart ==
    /\ tx_last.op = "rr_cm"
    /\ tx_last.outcome = "sent"
    /\ tx_units[tx_last.client] = 3
    /\ \E c \in ClientIds : c # tx_last.client /\ tx_units[c] = 1

\* C15: the sequence number send_unit_cip places in the connected-packet item
\* is a 16-bit value.
SequenceIs16Bit ==
    tx_last.op = "unit" => tx_last.sequence \in 0..(SeqModulus - 1)

(***************************************************************************)
(* SessionOrchestrator and IORuntime: threads, locks and the wire          *)
(***************************************************************************)

\* PLCManager's default pool_size.
PoolSize == 2

\* OutputRequest objects that write_assembly may create in one behaviour.
MaxRequests == 1

\* Threads are <<session, role>>; API callers belong to no session.
CallerA == <<0, "a">>
CallerB == <<0, "b">>
NoThread == <<0, "none">>
Sids == 1..2
Callers == {CallerA, CallerB}
Workers == Sids \X {"poll", "disp"}
Threads == Callers \cup Workers

\* The assemblies a configuration can declare: one input, one output.
Aliases == {"in", "out"}

\* record.size of an assembly that declares none.
NoSize == -1

\* The size the assemblies declare where they declare one.
OutSize == 2

\* What is deployed: the API threads that call the orchestrator, the sessions
\* they may start, the assemblies of the loaded configuration with the size
\* the output assembly declares, the aliases and payload lengths the callers
\* pass, and whether the outcome of every API call is put on record.
Deployment(callers, sessions, aliases) ==
    [callers |-> callers, sessions |-> sessions, aliases |-> aliases,
     size |-> OutSize, asked |-> aliases, lens |-> {OutSize}, audit |-> FALSE]

Deployments ==
    {Deployment({CallerA, CallerB}, 1, {"in"}),
     Deployment({CallerA, CallerB}, 1, {"out"}),
     Deployment({CallerA}, 1, {"in", "out"}),
     Deployment({CallerA}, 2, {"in"}),
     Deployment({CallerA}, 2, {"out"})}

\* One caller whose calls are put on record, as is what the workers log; it
\* also names an assembly that is not registered and passes payloads of a
\* wrong length, and there are assemblies that declare no size.
AuditDeployments ==
    {[Deployment({CallerA}, 1, {"in", "out"}) EXCEPT
         !.lens = {OutSize - 1, OutSize}, !.audit = TRUE],
     [Deployment({CallerA}, 1, {"out"}) EXCEPT
         !.asked = Aliases, !.size = NoSize, !.lens = {OutSize - 1, OutSize},
         !.audit = TRUE],
     [Deployment({CallerA}, 1, {"in"}) EXCEPT !.size = NoSize, !.audit = TRUE]}

\* Calls that start with _require_session.
Ops == {"read_assembly", "write_attribute", "send_command",
        "get_assembly_state", "write_assembly", "stop_session", "get_status",
        "get_diagnostics"}

NoLoc ==
    [op |-> "none", sid |-> 0, alias |-> "-", len |-> 0, client |-> 0, req |-> 0,
     close |-> "-"]

\* No API call ended in this step.
NoOutcome ==
    [thread |-> NoThread, op |-> "none", sid |-> 0, alias |-> "-",
     kind |-> "none", detail |-> <<>>]

\* The API call `op` of thread t ended: it returned (kind "returned") or
\* raised an exception of class `kind` with message `detail`.
Outcome(t, op, kind, detail) ==
    IF o_deploy.audit
    THEN [thread |-> t, op |-> op, sid |-> o_loc[t].sid, alias |-> o_loc[t].alias,
          kind |-> kind, detail |-> detail]
    ELSE NoOutcome

\* A step in which no API call ends.
Quiet == o_result' = NoOutcome

\* How the outcome of an exchange reaches the caller.
Surfaced(t, op, out) ==
    Outcome(t, op, CASE out = "ok" -> "returned"
                     [] out = "cip_error" -> "ResponseError"
                     [] OTHER -> "ConnectionError", <<>>)

SidOf(t) == IF t \in Callers THEN o_loc[t].sid ELSE t[1]
RoleOf(t) == IF t \in Callers THEN "api" ELSE t[2]
AliasOf(t) == CASE RoleOf(t) = "poll" -> "in"
                [] RoleOf(t) = "disp" -> "out"
                [] OTHER -> o_loc[t].alias
ClientOf(t) == IF o_loc[t].op = "start_session"
               THEN o_loc[t].client ELSE o_client[SidOf(t)]

\* `with self._lock:` of the orchestrator: where a thread waits for the
\* registry mutex and where it is once it holds it.
RegSections ==
    {<<"require", "in_require">>, <<"insert", "in_insert">>, <<"pop", "in_pop">>}

\* `with self._lock:` of the runtime.
RtSections ==
    {<<"view", "in_view">>, <<"review", "in_review">>,
     <<"fetch_record", "in_fetch_record">>,
     <<"update_record", "in_update_record">>,
     <<"update_status", "in_update_status">>,
     <<"queue_output", "in_queue_output">>,
     <<"await_output", "in_await_output">>,
     <<"output_record", "in_output_record">>,
     <<"input_assemblies", "in_input_assemblies">>,
     <<"output_assemblies", "in_output_assemblies">>}

\* `with handle.io_lock:` and the first thing done under it.
IoSections ==
    {<<"io_lock", "send">>, <<"fetch_lock", "fetch_record">>,
     <<"output_lock", "output_record">>}

\* A thread has sent a request and not yet read the reply.
AwaitingReply ==
    {"recv", "fetch_recv", "output_recv", "open_recv", "close_recv"}

\* What recv_enippkt and the status check can make of a reply.
Outcomes(op) ==
    {"ok", "cip_error", "conn_error"}
        \cup (IF op \in {"read_assembly", "fetch"} THEN {"more"} ELSE {})

Goto(t, p) == o_pc' = [o_pc EXCEPT ![t] = p]

\* client.send_*: the request is on the wire.
WireSend(wire, c, t) == [wire EXCEPT ![c] = Append(@, t)]

\* client.recv_enippkt: the oldest outstanding reply is consumed.
WireRecv(wire, c) == [wire EXCEPT ![c] = IF @ = <<>> THEN @ ELSE Tail(@)]

IoLockIgnored(s) == TRUE

\* threading.Lock: acquire blocks while another thread holds it.
IoLockFree(s) == o_iolock[s] = NoThread

IoLockKept(t) == o_iolock

\* Leaving `with handle.io_lock:`, normally or by an exception.
IoRelease(t) == [o_iolock EXCEPT ![SidOf(t)] = NoThread]

oLocks == <<o_iolock, o_reglock, rt_lock>>
oRegistry == <<o_sessions, o_next_sid, o_client, o_loops, o_stop>>
oRuntime == <<rt_ts, rt_queue, rt_req>>
oPool == <<pool_clients, pool_created, pool_issued>>
oConst == <<o_deploy, NotOrch>>
oFrame == <<oConst, o_logged>>

\* SessionOrchestrator.__init__ with a loaded IORuntime and a fresh PLCManager.
OrchInit(d) ==
    /\ o_deploy = d
    /\ o_pc = [t \in Threads |-> IF t \in Callers THEN "idle" ELSE "off"]
    /\ o_loc = [t \in Threads |-> NoLoc]
    /\ o_sessions = {}
    /\ o_next_sid = 1
    /\ o_client = [s \in Sids |-> 0]
    /\ o_loops = {}
    /\ o_stop = [s \in Sids |-> FALSE]
    /\ o_iolock = [s \in Sids |-> NoThread]
    /\ o_reglock = NoThread
    /\ o_wire = [c \in 1..PoolSize |-> <<>>]
    /\ rt_lock = NoThread
    /\ rt_ts = [a \in Aliases |-> FALSE]
    /\ rt_queue = <<>>
    /\ rt_req = [r \in 1..MaxRequests |-> "free"]
    /\ o_result = NoOutcome
    /\ o_logged = [s \in Sids |-> {}]

\* ---- lock acquisition ----

\* with self._lock (orchestrator registry)
RegLockAcquire(t) ==
    /\ Quiet
    /\ \E sec \in RegSections : o_pc[t] = sec[1] /\ Goto(t, sec[2])
    /\ o_reglock = NoThread
    /\ o_reglock' = t
    /\ UNCHANGED <<o_loc, o_iolock, rt_lock, oRegistry, oRuntime, oPool, o_wire, oFrame>>

\* with self._lock (runtime)
RtLockAcquire(t) ==
    /\ Quiet
    /\ \E sec \in RtSections : o_pc[t] = sec[1] /\ Goto(t, sec[2])
    /\ rt_lock = NoThread
    /\ rt_lock' = t
    /\ UNCHANGED <<o_loc, o_iolock, o_reglock, oRegistry, oRuntime, oPool, o_wire, oFrame>>

\* with handle.io_lock
IoLockAcquire(t) ==
    /\ Quiet
    /\ \E sec \in IoSections : o_pc[t] = sec[1] /\ Goto(t, sec[2])
    /\ IoLockFree(SidOf(t))
    /\ o_iolock' = [o_iolock EXCEPT ![SidOf(t)] = t]
    /\ UNCHANGED <<o_loc, o_reglock, rt_lock, oRegistry, oRuntime, oPool, o_wire, oFrame>>

\* ---- _require_session ----

\* An API thread enters a call that names session s.
Call(t) ==
    /\ Quiet
    /\ t \in o_deploy.callers
    /\ o_pc[t] = "idle"
    /\ \E s \in 1..o_deploy.sessions :
          o_loc' = [o_loc EXCEPT ![t] = [NoLoc EXCEPT !.sid = s]]
    /\ Goto(t, "require")
    /\ UNCHANGED <<oLocks, oRegistry, oRuntime, oPool, o_wire, oFrame>>

\* OutputRequest objects not yet spoken for by a write_assembly call.
RequestsLeft ==
    Cardinality({r \in DOMAIN rt_req : rt_req[r] = "free"})
        - Cardinality({u \in Callers : o_loc[u].op = "write_assembly"
                                        /\ o_loc[u].req = 0})

\* request.complete(status, error): the outcome is kept for the caller that
\* waits for it; once nobody holds the request any more it is garbage.
Complete(reqs, r, outcome) ==
    [reqs EXCEPT ![r] = IF \E u \in Callers : o_pc[u] = "wait" /\ o_loc[u].req = r
                        THEN outcome ELSE "gone"]

\* Where each call goes once it has its handle; get_status and
\* get_diagnostics read the handle and return.
FirstStep(op) ==
    CASE op \in {"read_assembly", "write_attribute", "send_command"} -> "io_lock"
      [] op = "get_assembly_state" -> "view"
      [] op = "write_assembly" -> "queue_output"
      [] op = "stop_session" -> "stop_loops"
      [] OTHER -> "idle"

RegisteredEver(s) == s < o_next_sid

\* self._sessions.get(session_id) is not None
Registered(s) == s \in o_sessions

\* PLCManagerError("Unknown session '{}'".format(session_id))
UnknownSession == <<"Unknown", "session">>

\* _require_session finds the handle.  Which call the API thread is making
\* shows from here on.
RequireKnown(t) ==
    /\ o_pc[t] = "in_require"
    /\ Registered(SidOf(t))
    /\ o_reglock' = NoThread
    /\ CASE RoleOf(t) = "poll" -> Goto(t, "fetch_lock") /\ UNCHANGED o_loc /\ Quiet
         [] RoleOf(t) = "disp" -> Goto(t, "output_lock") /\ UNCHANGED o_loc /\ Quiet
         [] OTHER ->
              \E op \in Ops :
              \E a \in IF op \in {"get_assembly_state", "write_assembly"}
                        THEN o_deploy.asked ELSE {"-"} :
              \E n \in IF op = "write_assembly" THEN o_deploy.lens ELSE {0} :
                  /\ op = "write_assembly" => RequestsLeft > 0
                  /\ o_loc' =
                        IF FirstStep(op) = "idle" THEN [o_loc EXCEPT ![t] = NoLoc]
                        ELSE [o_loc EXCEPT
                                 ![t].op = op,
                                 ![t].alias = a,
                                 ![t].len = n]
                  /\ Goto(t, FirstStep(op))
                  /\ o_result' = IF FirstStep(op) = "idle"
                                 THEN Outcome(t, op, "returned", <<>>)
                                 ELSE NoOutcome
    /\ UNCHANGED <<o_iolock, rt_lock, oRegistry, rt_ts, rt_queue, rt_req, oPool, o_wire, oFrame>>

\* _require_session raises PLCManagerError: the call fails, the poll worker
\* returns, the dispatch worker completes its request with "Session closed".
RequireUnknown(t) ==
    /\ o_pc[t] = "in_require"
    /\ ~Registered(SidOf(t))
    /\ o_reglock' = NoThread
    /\ IF t \in Callers /\ o_deploy.audit
       THEN \E op \in Ops :
               o_result' = Outcome(t, op, "ManagerError", UnknownSession)
       ELSE Quiet
    /\ Goto(t, CASE RoleOf(t) = "poll" -> "done"
                 [] RoleOf(t) = "disp" -> "check"
                 [] OTHER -> "idle")
    /\ o_loc' = [o_loc EXCEPT ![t] = NoLoc]
    /\ rt_req' = IF RoleOf(t) = "disp"
                 THEN Complete(rt_req, o_loc[t].req, "error") ELSE rt_req
    /\ UNCHANGED <<o_iolock, rt_lock, oRegistry, rt_ts, rt_queue, oPool, o_wire, oFrame>>

\* ---- read_assembly, write_attribute, send_command ----

\* Under io_lock the request goes out, or the send raises and the lock is
\* released on the way out of the call.
ApiSend(t) ==
    /\ o_pc[t] = "send"
    /\ \E sent \in BOOLEAN :
          IF sent
          THEN /\ o_wire' = WireSend(o_wire, ClientOf(t), t)
               /\ Goto(t, "recv")
               /\ Quiet
               /\ UNCHANGED <<o_iolock, o_loc>>
          ELSE /\ o_iolock' = IoRelease(t)
               /\ Goto(t, "idle")
               /\ o_loc' = [o_loc EXCEPT ![t] = NoLoc]
               /\ o_result' = Surfaced(t, o_loc[t].op, "conn_error")
               /\ UNCHANGED o_wire
    /\ UNCHANGED <<o_reglock, rt_lock, oRegistry, oRuntime, oPool, oFrame>>

\* The reply is read under io_lock; _read_full_tag asks again on status 6.
ApiRecv(t) ==
    /\ o_pc[t] = "recv"
    /\ \E out \in Outcomes(o_loc[t].op) :
          IF out = "more"
          THEN /\ o_wire' = WireSend(WireRecv(o_wire, ClientOf(t)), ClientOf(t), t)
               /\ Quiet
               /\ UNCHANGED <<o_pc, o_loc, o_iolock>>
          ELSE /\ o_wire' = WireRecv(o_wire, ClientOf(t))
               /\ o_iolock' = IoRelease(t)
               /\ Goto(t, "idle")
               /\ o_loc' = [o_loc EXCEPT ![t] = NoLoc]
               /\ o_result' = Surfaced(t, o_loc[t].op, out)
    /\ UNCHANGED <<o_reglock, rt_lock, oRegistry, oRuntime, oPool, oFrame>>

\* ---- IORuntime.fetch, under io_lock (get_assembly_state, poll worker) ----

AfterFetchPollEnds(t, ok) ==
    IF RoleOf(t) = "poll" THEN (IF ok THEN "check" ELSE "done")
    ELSE IF ok THEN "review" ELSE "idle"

\* Where a thread goes when fetch is over and io_lock released.
AfterFetch(t, ok) ==
    IF RoleOf(t) = "poll" THEN "check" ELSE IF ok THEN "review" ELSE "idle"

\* The size the record of an assembly declares.
DeclaredSize(a) == o_deploy.size

\* logger.debug / logger.exception in the except clauses of a worker loop.
Logged(w, kind) ==
    IF o_deploy.audit THEN [o_logged EXCEPT ![w[1]] = @ \cup {kind}] ELSE o_logged

\* fetch raised: io_lock is released; a poll worker logs the exception, an
\* API call lets it through.
FetchLeave(t, ok, kind) ==
    /\ o_iolock' = IoRelease(t)
    /\ Goto(t, AfterFetch(t, ok))
    /\ o_loc' = IF AfterFetch(t, ok) = "idle"
                THEN [o_loc EXCEPT ![t] = NoLoc] ELSE o_loc
    /\ o_result' = IF AfterFetch(t, ok) = "idle"
                   THEN Outcome(t, o_loc[t].op, kind, <<>>) ELSE NoOutcome
    /\ o_logged' = IF RoleOf(t) = "poll" THEN Logged(t, kind) ELSE o_logged

\* _get_record returns; without a declared size fetch raises, else
\* _read_full_tag sends its first request.
FetchSend(t) ==
    /\ o_pc[t] = "in_fetch_record"
    /\ rt_lock' = NoThread
    /\ IF DeclaredSize(AliasOf(t)) = NoSize
       THEN FetchLeave(t, FALSE, "RuntimeError") /\ UNCHANGED o_wire
       ELSE \E sent \in BOOLEAN :
               IF sent
               THEN /\ o_wire' = WireSend(o_wire, ClientOf(t), t)
                    /\ Goto(t, "fetch_recv")
                    /\ Quiet
                    /\ UNCHANGED <<o_iolock, o_loc, o_logged>>
               ELSE FetchLeave(t, FALSE, "ConnectionError") /\ UNCHANGED o_wire
    /\ UNCHANGED <<o_reglock, oRegistry, oRuntime, oPool, oConst>>

FetchRecv(t) ==
    /\ o_pc[t] = "fetch_recv"
    /\ \E out \in Outcomes("fetch") :
          CASE out = "more" ->
                 /\ o_wire' = WireSend(WireRecv(o_wire, ClientOf(t)), ClientOf(t), t)
                 /\ Quiet
                 /\ UNCHANGED <<o_pc, o_loc, o_iolock, o_logged>>
            [] out = "ok" ->
                 /\ o_wire' = WireRecv(o_wire, ClientOf(t))
                 /\ Goto(t, "update_record")
                 /\ Quiet
                 /\ UNCHANGED <<o_loc, o_iolock, o_logged>>
            [] out = "cip_error" ->
                 /\ o_wire' = WireRecv(o_wire, ClientOf(t))
                 /\ Goto(t, "update_status")
                 /\ Quiet
                 /\ UNCHANGED <<o_loc, o_iolock, o_logged>>
            [] OTHER ->
                 /\ o_wire' = WireRecv(o_wire, ClientOf(t))
                 /\ FetchLeave(t, FALSE, "ConnectionError")
    /\ UNCHANGED <<o_reglock, rt_lock, oRegistry, oRuntime, oPool, oConst>>

\* _update_record, then the thread leaves io_lock.  The dispatch worker comes
\* here from send_output and completes its request.
UpdateRecord(t) ==
    /\ Quiet
    /\ o_pc[t] = "in_update_record"
    /\ rt_lock' = NoThread
    /\ rt_ts' = [rt_ts EXCEPT ![AliasOf(t)] = TRUE]
    /\ o_iolock' = IoRelease(t)
    /\ IF RoleOf(t) = "disp"
       THEN /\ rt_req' = Complete(rt_req, o_loc[t].req, "ok")
            /\ o_loc' = [o_loc EXCEPT ![t] = NoLoc]
            /\ Goto(t, "check")
       ELSE /\ Goto(t, AfterFetch(t, TRUE))
            /\ UNCHANGED <<rt_req, o_loc>>
    /\ UNCHANGED <<o_reglock, oRegistry, rt_queue, oPool, o_wire, oFrame>>

\* _update_status after a PLCResponseError, which then leaves fetch.
UpdateStatus(t) ==
    /\ o_pc[t] = "in_update_status"
    /\ rt_lock' = NoThread
    /\ rt_ts' = [rt_ts EXCEPT ![AliasOf(t)] = TRUE]
    /\ FetchLeave(t, FALSE, "ResponseError")
    /\ UNCHANGED <<o_reglock, oRegistry, rt_queue, rt_req, oPool, o_wire, oConst>>

\* ---- get_assembly_state ----

\* _get_record finds a record for the alias.
Known(a) == a \in o_deploy.aliases

\* get_view (_get_record and the field reads, two passes through the runtime
\* mutex with nothing in between); a fetch follows when the record has no
\* timestamp yet.
View(t) ==
    /\ o_pc[t] = "in_view"
    /\ rt_lock' = NoThread
    /\ IF ~Known(AliasOf(t))
       THEN /\ Goto(t, "idle")
            /\ o_loc' = [o_loc EXCEPT ![t] = NoLoc]
            /\ o_result' = Outcome(t, o_loc[t].op, "NotRegisteredError", <<>>)
       ELSE IF rt_ts[AliasOf(t)]
       THEN /\ Goto(t, "idle")
            /\ o_loc' = [o_loc EXCEPT ![t] = NoLoc]
            /\ o_result' = Outcome(t, o_loc[t].op, "returned", <<>>)
       ELSE Goto(t, "fetch_lock") /\ Quiet /\ UNCHANGED o_loc
    /\ UNCHANGED <<o_iolock, o_reglock, oRegistry, oRuntime, oPool, o_wire, oFrame>>

\* get_view after the fetch.
Review(t) ==
    /\ o_pc[t] = "in_review"
    /\ rt_lock' = NoThread
    /\ Goto(t, "idle")
    /\ o_loc' = [o_loc EXCEPT ![t] = NoLoc]
    /\ o_result' = Outcome(t, o_loc[t].op, "returned", <<>>)
    /\ UNCHANGED <<o_iolock, o_reglock, oRegistry, oRuntime, oPool, o_wire, oFrame>>

\* ---- write_assembly ----

\* record.direction
Direction(a) == IF a = "in" THEN "input" ELSE "output"

QueueOutputVerdictAnySize(a, n) ==
    IF ~Known(a) THEN "NotRegisteredError"
    ELSE IF Direction(a) \notin {"output", "bidirectional"} THEN "DirectionError"
    ELSE "queued"

\* IORuntime.queue_output for a payload of n bytes: the exception it raises,
\* or "queued".
QueueOutputVerdict(a, n) ==
    IF ~Known(a) THEN "NotRegisteredError"
    ELSE IF Direction(a) \notin {"output", "bidirectional"} THEN "DirectionError"
    ELSE IF DeclaredSize(a) # NoSize /\ n # DeclaredSize(a) THEN "RuntimeError"
    ELSE "queued"

\* queue_output: the request is refused, which ends write_assembly, or queued.
QueueOutput(t) ==
    /\ o_pc[t] = "in_queue_output"
    /\ rt_lock' = NoThread
    /\ IF QueueOutputVerdict(AliasOf(t), o_loc[t].len) # "queued"
       THEN /\ Goto(t, "idle")
            /\ o_loc' = [o_loc EXCEPT ![t] = NoLoc]
            /\ o_result' = Outcome(t, o_loc[t].op,
                                   QueueOutputVerdict(AliasOf(t), o_loc[t].len), <<>>)
            /\ UNCHANGED <<rt_queue, rt_req>>
       ELSE LET r == CHOOSE q \in DOMAIN rt_req :
                        /\ rt_req[q] = "free"
                        /\ \A p \in DOMAIN rt_req : rt_req[p] = "free" => q <= p
            IN /\ rt_req' = [rt_req EXCEPT ![r] = "queued"]
               /\ rt_queue' = Append(rt_queue, r)
               /\ o_loc' = [o_loc EXCEPT ![t].req = r]
               /\ Goto(t, "wait")
               /\ Quiet
    /\ UNCHANGED <<o_iolock, o_reglock, oRegistry, rt_ts, oPool, o_wire, oFrame>>

\* TimeoutError("Timed out waiting for output assembly write to complete")
WaitTimedOut ==
    <<"Timed", "out", "waiting", "for", "output", "assembly", "write", "to",
      "complete">>

WaitVerdictNoTimeout(state) ==
    IF state = "error" THEN [kind |-> "RequestError", detail |-> <<>>]
    ELSE [kind |-> "returned", detail |-> <<>>]

\* What write_assembly makes of request.wait(timeout): the status of a
\* completed request, the error it was completed with, or PLCManagerError
\* with the text of the TimeoutError.
WaitVerdict(state) ==
    IF state = "ok" THEN [kind |-> "returned", detail |-> <<>>]
    ELSE IF state = "error" THEN [kind |-> "RequestError", detail |-> <<>>]
    ELSE [kind |-> "ManagerError", detail |-> WaitTimedOut]

AfterTimeoutWithdraws(queue, r) == SelectSeq(queue, LAMBDA q : q # r)

\* What the TimeoutError of request.wait leaves of the alias's FIFO: wait
\* raises and write_assembly re-raises, neither touches pending_outputs.
AfterTimeout(queue, r) == queue

\* request.wait(timeout) returns: the request was completed, or time ran out
\* and the request stays where it is.
WaitOutput(t) ==
    /\ o_pc[t] = "wait"
    /\ Goto(t, "idle")
    /\ o_loc' = [o_loc EXCEPT ![t] = NoLoc]
    /\ o_result' = Outcome(t, o_loc[t].op, WaitVerdict(rt_req[o_loc[t].req]).kind,
                           WaitVerdict(rt_req[o_loc[t].req]).detail)
    /\ rt_req' = IF rt_req[o_loc[t].req] \in {"ok", "error"}
                 THEN [rt_req EXCEPT ![o_loc[t].req] = "gone"] ELSE rt_req
    /\ rt_queue' = IF rt_req[o_loc[t].req] \in {"ok", "error"}
                   THEN rt_queue ELSE AfterTimeout(rt_queue, o_loc[t].req)
    /\ UNCHANGED <<oLocks, oRegistry, rt_ts, oPool, o_wire, oFrame>>

\* ---- stop_session ----

\* _stop_io_loops: the loop state is popped and its stop_event set; the joins
\* give up after their timeout whether or not the workers have returned.
StopIoLoops(t) ==
    /\ Quiet
    /\ o_pc[t] = "stop_loops"
    /\ IF SidOf(t) \in o_loops
       THEN /\ o_loops' = o_loops \ {SidOf(t)}
            /\ o_stop' = [o_stop EXCEPT ![SidOf(t)] = TRUE]
       ELSE UNCHANGED <<o_loops, o_stop>>
    /\ Goto(t, "close_send")
    /\ UNCHANGED <<o_loc, oLocks, o_sessions, o_next_sid, o_client, oRuntime, oPool,
                   o_wire, oFrame>>

\* PLCManager.release_client
ReleaseClient(c) == PoolRelease(pool_clients, pool_max_size, c)

\* What _forward_close gave stop_session: "ok", or the class of what it raised
\* (no reply and a non-zero status both raise PLCResponseError).
CloseKind(out) ==
    CASE out = "ok" -> "ok"
      [] out = "cip_error" -> "ResponseError"
      [] OTHER -> "ConnectionError"

\* The outcome of ForwardClose is kept until stop_session ends.
Closing(t, out) == [o_loc EXCEPT ![t].close = CloseKind(out)]

\* finally: self._manager.release_client(handle.client)
FinallyRelease(c) == ReleaseClient(c)

\* PLCManager.stop_session: the ForwardClose request goes out, or the send
\* raises and the finally clause releases the client.
ForwardCloseSend(t) ==
    /\ Quiet
    /\ o_pc[t] = "close_send"
    /\ \E sent \in BOOLEAN :
          IF sent
          THEN /\ o_wire' = WireSend(o_wire, ClientOf(t), t)
               /\ Goto(t, "close_recv")
               /\ UNCHANGED <<pool_clients, o_loc>>
          ELSE /\ pool_clients' = FinallyRelease(ClientOf(t))
               /\ o_loc' = Closing(t, "conn_error")
               /\ Goto(t, "pop")
               /\ UNCHANGED o_wire
    /\ UNCHANGED <<oLocks, oRegistry, oRuntime, pool_created, pool_issued, oFrame>>

\* The ForwardClose reply is read: status 0, or PLCResponseError, or the
\* read fails; in every case the finally clause releases the client.
ForwardCloseRecv(t) ==
    /\ Quiet
    /\ o_pc[t] = "close_recv"
    /\ o_wire' = WireRecv(o_wire, ClientOf(t))
    /\ pool_clients' = FinallyRelease(ClientOf(t))
    /\ \E out \in Outcomes("forward_close") : o_loc' = Closing(t, out)
    /\ Goto(t, "pop")
    /\ UNCHANGED <<oLocks, oRegistry, oRuntime, pool_created, pool_issued, oFrame>>

\* self._sessions.pop(session_id, None), after which stop_session returns the
\* status or lets through what ForwardClose raised.
PopSession(t) ==
    /\ o_pc[t] = "in_pop"
    /\ o_reglock' = NoThread
    /\ o_sessions' = o_sessions \ {SidOf(t)}
    /\ Goto(t, "idle")
    /\ o_loc' = [o_loc EXCEPT ![t] = NoLoc]
    /\ o_result' = Outcome(t, o_loc[t].op,
                           IF o_loc[t].close \in {"ResponseError", "ConnectionError"}
                           THEN o_loc[t].close ELSE "returned", <<>>)
    /\ UNCHANGED <<o_iolock, rt_lock, o_next_sid, o_client, o_loops, o_stop, oRuntime,
                   oPool, o_wire, oFrame>>

\* ---- start_session ----

\* Sessions created so far or about to be.
Started == (o_next_sid - 1) + Cardinality({t \in Callers : o_pc[t] = "open_recv"})

\* PLCManager.acquire_client
AcquireClient(ctor) == PoolAcquire(pool_clients, pool_created, pool_max_size, ctor)

\* acquire_client, then PLCManager.start_session sends ForwardOpen.  A failure
\* of either ends the call, the second after releasing the client.
StartSession(t) ==
    /\ t \in o_deploy.callers
    /\ o_pc[t] = "idle"
    /\ Started < o_deploy.sessions
    /\ \E ctor \in CtorOutcomes, sent \in BOOLEAN :
          LET r == AcquireClient(ctor)
          IN /\ pool_created' = r.created
             /\ pool_issued' = IF r.outcome = "client"
                               THEN pool_issued \cup {r.client} ELSE pool_issued
             /\ IF r.outcome = "client" /\ sent
                THEN /\ pool_clients' = r.clients
                     /\ o_wire' = WireSend(o_wire, r.client, t)
                     /\ o_loc' = [o_loc EXCEPT ![t] =
                                     [NoLoc EXCEPT !.op = "start_session",
                                                   !.client = r.client]]
                     /\ Goto(t, "open_recv")
                     /\ Quiet
                ELSE /\ pool_clients' = IF r.outcome = "client"
                                        THEN PoolRelease(r.clients, pool_max_size, r.client)
                                        ELSE r.clients
                     /\ o_result' = Outcome(t, "start_session",
                                            IF r.outcome = "client"
                                            THEN "ConnectionError" ELSE r.outcome,
                                            <<>>)
                     /\ UNCHANGED <<o_wire, o_loc, o_pc>>
    /\ UNCHANGED <<oLocks, oRegistry, oRuntime, oFrame>>

UnwindStartLeaks(c) == pool_clients

\* except Exception: self._manager.release_client(client), then raise
UnwindStart(c) == ReleaseClient(c)

\* The ForwardOpen reply: on success the handle gets a fresh id, else the
\* client goes back to the pool.
ForwardOpenRecv(t) ==
    /\ o_pc[t] = "open_recv"
    /\ o_wire' = WireRecv(o_wire, ClientOf(t))
    /\ \E out \in Outcomes("forward_open") :
          IF out = "ok"
          THEN /\ o_next_sid' = o_next_sid + 1
               /\ o_client' = [o_client EXCEPT ![o_next_sid] = o_loc[t].client]
               /\ o_loc' = [o_loc EXCEPT ![t].sid = o_next_sid, ![t].op = "registering"]
               /\ Goto(t, "insert")
               /\ Quiet
               /\ UNCHANGED pool_clients
          ELSE /\ pool_clients' = UnwindStart(o_loc[t].client)
               /\ o_loc' = [o_loc EXCEPT ![t] = NoLoc]
               /\ Goto(t, "idle")
               /\ o_result' = Surfaced(t, "start_session", out)
               /\ UNCHANGED <<o_next_sid, o_client>>
    /\ UNCHANGED <<oLocks, o_sessions, o_loops, o_stop, oRuntime, pool_created,
                   pool_issued, oFrame>>

\* self._sessions[session_id] = handle
InsertSession(t) ==
    /\ Quiet
    /\ o_pc[t] = "in_insert"
    /\ o_reglock' = NoThread
    /\ o_sessions' = o_sessions \cup {SidOf(t)}
    /\ Goto(t, "input_assemblies")
    /\ UNCHANGED <<o_loc, o_iolock, rt_lock, o_next_sid, o_client, o_loops, o_stop,
                   oRuntime, oPool, o_wire, oFrame>>

\* _start_io_loops: a poll thread is started for each input assembly.
StartPollers(t) ==
    /\ Quiet
    /\ o_pc[t] = "in_input_assemblies"
    /\ rt_lock' = NoThread
    /\ o_pc' = [o_pc EXCEPT ![t] = "output_assemblies",
                            ![<<SidOf(t), "poll">>] =
                               IF "in" \in o_deploy.aliases THEN "check" ELSE @]
    /\ UNCHANGED <<o_loc, o_iolock, o_reglock, oRegistry, oRuntime, oPool, o_wire, oFrame>>

\* _start_io_loops: a dispatch thread is started for each output assembly and
\* the loop state recorded.
StartDispatchers(t) ==
    /\ o_pc[t] = "in_output_assemblies"
    /\ rt_lock' = NoThread
    /\ o_pc' = [o_pc EXCEPT ![t] = "idle",
                            ![<<SidOf(t), "disp">>] =
                               IF "out" \in o_deploy.aliases THEN "check" ELSE @]
    /\ o_loc' = [o_loc EXCEPT ![t] = NoLoc]
    /\ o_result' = Outcome(t, "start_session", "returned", <<>>)
    /\ o_loops' = o_loops \cup {SidOf(t)}
    /\ UNCHANGED <<o_iolock, o_reglock, o_sessions, o_next_sid, o_client, o_stop,
                   oRuntime, oPool, o_wire, oFrame>>

\* ---- _input_poll_loop, _output_dispatch_loop ----

StopNeverObserved(w) == FALSE

\* stop_event.is_set(), on the event the worker was started with.
StopObserved(w) == o_stop[w[1]]

\* while not stop_event.is_set(), reached at thread start and after each
\* stop_event.wait(poll_interval) or pass of the dispatch loop.
LoopCheck(w) ==
    /\ Quiet
    /\ o_pc[w] = "check"
    /\ Goto(w, IF StopObserved(w) THEN "done"
               ELSE IF RoleOf(w) = "poll" THEN "require" ELSE "await_output")
    /\ UNCHANGED <<o_loc, oLocks, oRegistry, oRuntime, oPool, o_wire, oFrame>>

\* await_output: _get_record returns and the thread blocks on the queue.
AwaitOutput(w) ==
    /\ Quiet
    /\ o_pc[w] = "in_await_output"
    /\ rt_lock' = NoThread
    /\ Goto(w, "queue_get")
    /\ UNCHANGED <<o_loc, o_iolock, o_reglock, oRegistry, oRuntime, oPool, o_wire, oFrame>>

DequeuePeek(queue) == queue

\* Queue.get: the head leaves the queue as it is handed to the caller.
Dequeue(queue) == Tail(queue)

\* pending_outputs.get(timeout=0.1): a request, or Empty and the next pass.
QueueGet(w) ==
    /\ Quiet
    /\ o_pc[w] = "queue_get"
    /\ IF rt_queue # <<>>
       THEN /\ rt_queue' = Dequeue(rt_queue)
            /\ rt_req' = [rt_req EXCEPT ![Head(rt_queue)] = "taken"]
            /\ o_loc' = [o_loc EXCEPT ![w].req = Head(rt_queue)]
            /\ Goto(w, "require")
       ELSE /\ Goto(w, "check")
            /\ UNCHANGED <<rt_queue, rt_req, o_loc>>
    /\ UNCHANGED <<oLocks, oRegistry, rt_ts, oPool, o_wire, oFrame>>

\* send_output raised: the dispatch worker completes its request with the
\* exception and logs it.
OutputLeave(w, kind) ==
    /\ o_iolock' = IoRelease(w)
    /\ rt_req' = Complete(rt_req, o_loc[w].req, "error")
    /\ o_loc' = [o_loc EXCEPT ![w] = NoLoc]
    /\ o_logged' = Logged(w, kind)
    /\ Goto(w, "check")

\* send_output: _get_record returns and send_unit_cip sends the write.
OutputSend(w) ==
    /\ Quiet
    /\ o_pc[w] = "in_output_record"
    /\ rt_lock' = NoThread
    /\ \E sent \in BOOLEAN :
          IF sent
          THEN /\ o_wire' = WireSend(o_wire, ClientOf(w), w)
               /\ Goto(w, "output_recv")
               /\ UNCHANGED <<o_iolock, o_loc, rt_req, o_logged>>
          ELSE OutputLeave(w, "ConnectionError") /\ UNCHANGED o_wire
    /\ UNCHANGED <<o_reglock, oRegistry, rt_ts, rt_queue, oPool, oConst>>

\* send_output reads the reply; only status 0 goes on to _update_record.
OutputRecv(w) ==
    /\ Quiet
    /\ o_pc[w] = "output_recv"
    /\ o_wire' = WireRecv(o_wire, ClientOf(w))
    /\ \E out \in Outcomes("send_output") :
          IF out = "ok"
          THEN Goto(w, "update_record") /\ UNCHANGED <<o_iolock, o_loc, rt_req, o_logged>>
          ELSE OutputLeave(w, IF out = "cip_error" THEN "ResponseError"
                              ELSE "ConnectionError")
    /\ UNCHANGED <<o_reglock, rt_lock, oRegistry, rt_ts, rt_queue, oPool, oConst>>

\* ---- properties of the orchestrator ----

\* The exchanges of read_assembly, write_attribute and send_command, of fetch
\* (get_assembly_state, poll worker) and of send_output (dispatch worker).
ListedExchange == {"recv", "fetch_recv", "output_recv"}

\* From which a thread sends the request of such an exchange.
ListedSending == {"send", "in_fetch_record", "in_output_record"}

InListedExchange(s) ==
    {t \in Threads : o_pc[t] \in ListedExchange /\ SidOf(t) = s}

\* C1: for each session at most one thread is between sending a request and
\* reading its reply in read_assembly, write_attribute, send_command,
\* get_assembly_state, a poll worker or a dispatch worker, and that thread
\* holds the session's io_lock from before the send until after the reply.
ExchangesSerialized ==
    \A s \in Sids :
        /\ Cardinality(InListedExchange(s)) <= 1
        /\ \A t \in Threads :
              (o_pc[t] \in ListedExchange \cup ListedSending /\ SidOf(t) = s)
                  => o_iolock[s] = t

\* An API call is inside its exchange while both workers of the session wait
\* for io_lock.
ExchangeContended ==
    \E s \in Sids :
        /\ \E t \in Callers : t \in InListedExchange(s)
        /\ o_pc[<<s, "poll">>] = "fetch_lock"
        /\ o_pc[<<s, "disp">>] = "output_lock"

\* C2: while stop_session is between sending ForwardClose and reading its
\* reply it holds the session's io_lock, and no other thread has a request
\* outstanding on that session's client.
ForwardCloseUnderIoLock ==
    \A t \in Threads :
        o_pc[t] = "close_recv" =>
            /\ o_iolock[SidOf(t)] = t
            /\ \A u \in Threads \ {t} :
                  ~(o_pc[u] \in AwaitingReply /\ ClientOf(u) = ClientOf(t))

WantsReg(t) == \E sec \in RegSections : o_pc[t] = sec[1]
WantsRt(t) == \E sec \in RtSections : o_pc[t] = sec[1]
WantsIo(t) == \E sec \in IoSections : o_pc[t] = sec[1]

HeldIo(t) == {s \in Sids : o_iolock[s] = t}

\* The thread that holds the lock t is waiting for, if any.
Blocker(t) ==
    CASE WantsIo(t) -> o_iolock[SidOf(t)]
      [] WantsRt(t) -> rt_lock
      [] WantsReg(t) -> o_reglock
      [] OTHER -> NoThread

\* t waits for a thread that waits for a thread ... n deep.
RECURSIVE WaitChain(_, _)
WaitChain(t, n) ==
    IF Blocker(t) = NoThread THEN FALSE
    ELSE IF n = 0 THEN TRUE
    ELSE WaitChain(Blocker(t), n - 1)

\* C3: a thread takes an io_lock holding no lock at all, the runtime mutex
\* holding at most one io_lock, the registry mutex holding no lock, and takes
\* nothing while it holds the runtime or the registry mutex; and no chain of
\* threads waiting for each other's locks closes on itself.
LockOrder ==
    /\ \A t \in Threads :
          /\ Cardinality(HeldIo(t)) <= 1
          /\ WantsIo(t) => HeldIo(t) = {} /\ rt_lock # t /\ o_reglock # t
          /\ WantsRt(t) => rt_lock # t /\ o_reglock # t
          /\ WantsReg(t) => HeldIo(t) = {} /\ rt_lock # t /\ o_reglock # t
          /\ ~(rt_lock = t /\ o_reglock = t)
    /\ \A t \in Threads : ~WaitChain(t, Cardinality(Threads))

\* Two sessions are open, a thread of each holds its io_lock, and one of the
\* two waits for the runtime mutex that the other holds.
TwoSessionsContend ==
    /\ o_sessions = {1, 2}
    /\ \E t, u \in Threads :
          /\ o_iolock[1] = t
          /\ o_iolock[2] = u
          /\ rt_lock = t
          /\ WantsRt(u)

\* start_session raised what the ForwardOpen exchange raised.
ForwardOpenFailed(r) ==
    r.op = "start_session" /\ r.kind \in {"ResponseError", "ConnectionError"}

\* C16: when ForwardOpen fails in start_session, the step in which the call
\* ends puts the acquired client back in the pool once, ends the call with
\* the ForwardOpen error, registers no handle and starts no worker.
StartSessionUnwinds ==
    [][ForwardOpenFailed(o_result') =>
          LET t == o_result'.thread
          IN /\ IF o_pc[t] = "open_recv"
                THEN /\ pool_clients' = PoolRelease(pool_clients, pool_max_size,
                                                   o_loc[t].client)
                     /\ pool_issued' = pool_issued
                ELSE \E ctor \in CtorOutcomes :
                        LET r == PoolAcquire(pool_clients, pool_created,
                                             pool_max_size, ctor)
                        IN /\ r.outcome = "client"
                           /\ pool_clients' = PoolRelease(r.clients, pool_max_size,
                                                          r.client)
             /\ o_pc'[t] = "idle"
             /\ o_sessions' = o_sessions
             /\ o_next_sid' = o_next_sid
             /\ o_client' = o_client
             /\ o_loops' = o_loops
             /\ \A w \in Workers : o_pc'[w] = o_pc[w]]_vars

\* start_session has just failed on a ForwardOpen reply with a non-zero status
\* and its client is idle in the pool again.
StartSessionRefusedByPlc ==
    /\ o_result.op = "start_session"
    /\ o_result.kind = "ResponseError"
    /\ Len(pool_clients) = 1
    /\ o_sessions = {}

\* stop_session(s) has completed: s was registered once and is registered no
\* more.
Stopped(s) ==
    /\ s < o_next_sid
    /\ s \notin o_sessions
    /\ ~\E t \in Callers : o_pc[t] \in {"insert", "in_insert"} /\ SidOf(t) = s

\* C17: when stop_session(s) has ended s is not in the registry and never
\* comes back, and every call on s that reaches _require_session afterwards
\* ends there with ManagerError "Unknown session", sending nothing and
\* releasing no client.
StoppedSessionUnknown ==
    [][\A s \in Sids :
          /\ (o_result'.op = "stop_session" /\ o_result'.sid = s) =>
                s \notin o_sessions'
          /\ Stopped(s) => Stopped(s)'
          /\ \A t \in Callers :
                (/\ o_pc[t] = "in_require"
                 /\ SidOf(t) = s
                 /\ Stopped(s)
                 /\ o_pc'[t] # "in_require") =>
                    /\ o_pc'[t] = "idle"
                    /\ o_result'.thread = t
                    /\ o_result'.sid = s
                    /\ o_result'.kind = "ManagerError"
                    /\ o_result'.detail = UnknownSession
                    /\ o_wire' = o_wire
                    /\ pool_clients' = pool_clients]_vars

\* write_assembly on a session that was started and stopped has just failed.
UnknownAfterStop ==
    /\ o_result.op = "write_assembly"
    /\ o_result.kind = "ManagerError"
    /\ o_result.detail = UnknownSession
    /\ o_result.sid = 1
    /\ o_next_sid = 2

WriteSentOnOwnClient ==
    \A w \in Workers, u \in Callers :
        (/\ o_pc[w] = "output_recv"
         /\ o_pc[u] = "wait"
         /\ o_loc[u].req = o_loc[w].req) =>
            ClientOf(w) = o_client[o_loc[u].sid]

\* C33: the request of write_assembly(S, alias, payload) is taken from the
\* FIFO only by a dispatch worker of session S, which sends it holding S's
\* io_lock.
WriteTakenByOwnSession ==
    \A w \in Workers, u \in Callers :
        (/\ o_pc[u] = "wait"
         /\ o_loc[u].req # 0
         /\ o_loc[w].req = o_loc[u].req) =>
            /\ w[1] = o_loc[u].sid
            /\ o_pc[w] \in {"in_output_record", "output_recv"} =>
                  o_iolock[o_loc[u].sid] = w

\* C34: once stop_session has returned for a session, with its client back
\* in the pool, no poll or dispatch worker of that session sends a request
\* or reads a reply on that client.
NoExchangeAfterStop ==
    [][\A w \in Workers :
          Stopped(w[1]) =>
              /\ ~(o_pc[w] \notin {"fetch_recv", "output_recv"}
                    /\ o_pc'[w] \in {"fetch_recv", "output_recv"})
              /\ ~(o_pc[w] \in {"fetch_recv", "output_recv"}
                    /\ o_pc'[w] # o_pc[w])]_vars

\* How often client c is in the pool's idle list.
IdleCount(c) == Cardinality({i \in DOMAIN pool_clients : pool_clients[i] = c})

\* The open sessions whose handle holds client c.
Holders(c) == {s \in o_sessions : o_client[s] = c}

\* C35: a client is never in the idle list twice, never held by two open
\* sessions, and never idle while an open session holds it; so two
\* stop_session calls for one session release its client once.
ClientHeldOrIdle ==
    \A c \in 1..PoolSize :
        /\ IdleCount(c) <= 1
        /\ Cardinality(Holders(c)) <= 1
        /\ ~(IdleCount(c) >= 1 /\ Holders(c) # {})

\* C40: when ForwardClose has failed during stop_session and the error is on
\* its way to the caller, every running worker of the session has been
\* signalled to stop and the session's client is in the pool's idle list
\* exactly once; when the call ends with that error the handle is gone.
StopTearsDownOnCloseFailure ==
    /\ \A t \in Callers :
          (/\ o_pc[t] \in {"pop", "in_pop"}
           /\ o_loc[t].close \in {"ResponseError", "ConnectionError"}) =>
              /\ \A w \in Workers :
                    (w[1] = SidOf(t) /\ o_pc[w] \notin {"off", "done"}) =>
                        o_stop[SidOf(t)]
              /\ IdleCount(o_client[SidOf(t)]) = 1
    /\ (/\ o_result.op = "stop_session"
        /\ o_result.kind \in {"ResponseError", "ConnectionError"}) =>
            o_result.sid \notin o_sessions

\* The caller of write_assembly that made request r has given up on it and
\* r is not completed.
Abandoned(r) ==
    /\ rt_req[r] \in {"queued", "taken"}
    /\ ~\E u \in Callers : o_loc[u].req = r

InFifo(r) == \E i \in DOMAIN rt_queue : rt_queue[i] = r

\* C39: a request whose write_assembly caller timed out stays in the FIFO;
\* the dispatch worker that finds it at the head takes it like any other,
\* and from send_output on it either puts the write on the wire or completes
\* the request, and completes it when it lets go of it.
AbandonedRequestStillSent ==
    /\ [](\A r \in DOMAIN rt_req :
            (Abandoned(r) /\ rt_req[r] = "queued") => InFifo(r))
    /\ [][/\ \A t \in Callers :
               (/\ o_pc[t] = "wait"
                /\ o_pc'[t] = "idle"
                /\ rt_req[o_loc[t].req] = "queued") =>
                   /\ rt_queue' = rt_queue
                   /\ InFifo(o_loc[t].req)
                   /\ rt_req'[o_loc[t].req] = "queued"
                   /\ ~\E u \in Callers : o_loc'[u].req = o_loc[t].req
          /\ \A w \in Workers :
               /\ (/\ o_pc[w] = "queue_get"
                   /\ o_pc'[w] # "queue_get"
                   /\ rt_queue # <<>>) =>
                      /\ o_loc'[w].req = Head(rt_queue)
                      /\ o_pc'[w] = "require"
               /\ (/\ o_loc[w].req # 0
                   /\ Abandoned(o_loc[w].req)
                   /\ o_pc[w] = "in_output_record"
                   /\ o_pc'[w] # "in_output_record") =>
                      \/ /\ o_pc'[w] = "output_recv"
                         /\ o_wire' = WireSend(o_wire, ClientOf(w), w)
                      \/ rt_req'[o_loc[w].req] = "gone"
               /\ (/\ o_loc[w].req # 0
                   /\ Abandoned(o_loc[w].req)
                   /\ o_loc'[w].req # o_loc[w].req) =>
                      rt_req'[o_loc[w].req] = "gone"]_vars

\* A dispatch worker has put the write of an abandoned request on the wire.
AbandonedRequestOnWire ==
    \E w \in Workers :
        /\ o_pc[w] = "output_recv"
        /\ o_loc[w].req # 0
        /\ Abandoned(o_loc[w].req)

\* C32: once the stop signal of a session is set each of its started workers
\* eventually returns; a worker that finds the signal set at its loop test
\* returns there and then, and a returned worker does nothing more; a dispatch
\* worker whose dequeue finds the FIFO empty goes straight to that test.
WorkersStopAfterSignal ==
    /\ \A w \in Workers :
          (o_stop[w[1]] /\ o_pc[w] # "off") ~> (o_pc[w] = "done")
    /\ [][\A w \in Workers :
            /\ (o_pc[w] = "check" /\ o_stop[w[1]] /\ o_pc'[w] # "check") =>
                  o_pc'[w] = "done"
            /\ o_pc[w] = "done" =>
                  /\ o_pc'[w] = "done"
                  /\ o_loc'[w] = o_loc[w]
            /\ (o_pc[w] = "queue_get" /\ o_pc'[w] # "queue_get" /\ rt_queue = <<>>) =>
                  o_pc'[w] = "check"]_vars

\* The session was signalled and its dispatch worker, with nothing left in
\* the FIFO, has returned.
StoppedWorkersReturned ==
    /\ o_stop[1]
    /\ o_pc[<<1, "disp">>] = "done"
    /\ rt_queue = <<>>

\* C20: when request.wait gives up on a request that is not completed,
\* write_assembly ends with ManagerError carrying the timeout message.
WriteTimeoutSurfaces ==
    [][\A t \in Callers :
          (/\ o_pc[t] = "wait"
           /\ o_pc'[t] # "wait"
           /\ rt_req[o_loc[t].req] \notin {"ok", "error"}) =>
              /\ o_pc'[t] = "idle"
              /\ o_result'.thread = t
              /\ o_result'.op = "write_assembly"
              /\ o_result'.kind = "ManagerError"
              /\ o_result'.detail = WaitTimedOut]_vars

\* write_assembly has just timed out with its request still in the FIFO, the
\* dispatch worker not having come round to it.
WriteTimedOut ==
    /\ o_result.op = "write_assembly"
    /\ o_result.kind = "ManagerError"
    /\ o_result.detail = WaitTimedOut
    /\ rt_queue # <<>>

\* The dispatch worker of session s has left its loop for good.
DispatcherGone(s) == o_pc[<<s, "disp">>] = "done"

\* C21: a request that is still in the output FIFO after stop_session has
\* destroyed the session it was written for is failed by that session's
\* dispatch worker, so the worker is still there to take it.
PendingFailedOnStop ==
    \A u \in Callers :
        (/\ o_pc[u] = "wait"
         /\ Stopped(o_loc[u].sid)
         /\ rt_req[o_loc[u].req] = "queued"
         /\ o_loc[u].req \in {rt_queue[i] : i \in DOMAIN rt_queue}) =>
            ~DispatcherGone(o_loc[u].sid)

\* The dispatch workers that hold request r between get and complete.
HeldBy(r) == {w \in Workers : o_loc[w].req = r}

\* request.complete has been called on the request: the caller can read the
\* outcome ("ok", "error") or has already dropped the request ("gone").
Completed == {"ok", "error", "gone"}

Pollers == {w \in Workers : w[2] = "poll"}

\* The step of poll worker w in which fetch raises an assembly-runtime error
\* (the record declares no size) or, after _update_status, a ResponseError.
PollFetchRaises(w) ==
    /\ \/ o_pc[w] = "in_fetch_record" /\ DeclaredSize(AliasOf(w)) = NoSize
       \/ o_pc[w] = "in_update_status"
    /\ o_pc'[w] # o_pc[w]

\* C25: a poll worker whose fetch raises an assembly-runtime error or a
\* ResponseError logs it, releases io_lock and is back at the top of its loop,
\* from where it goes on to the next fetch unless the stop event is set; a
\* poll worker that does not find its session in the registry returns at
\* once, sending nothing, and does not run again.
PollSurvivesFetchErrors ==
    [][\A w \in Pollers :
          /\ PollFetchRaises(w) =>
                /\ o_pc'[w] = "check"
                /\ o_iolock[w[1]] = w
                /\ o_iolock'[w[1]] = NoThread
                /\ o_logged'[w[1]] \cap {"RuntimeError", "ResponseError"} # {}
          /\ (o_pc[w] = "check" /\ o_pc'[w] # "check") =>
                o_pc'[w] = IF o_stop[w[1]] THEN "done" ELSE "require"
          /\ (o_pc[w] = "in_require" /\ o_pc'[w] # "in_require") =>
                IF Registered(w[1])
                THEN o_pc'[w] = "fetch_lock"
                ELSE o_pc'[w] = "done" /\ o_wire' = o_wire
          /\ o_pc[w] = "done" => o_pc'[w] = "done"]_vars

\* A poll worker has logged a runtime error and is about to fetch again.
PollAgainAfterRuntimeError ==
    \E w \in Pollers :
        /\ "RuntimeError" \in o_logged[w[1]]
        /\ o_pc[w] = "in_fetch_record"

\* C26: once an exchange of one of its workers has failed with a
\* ConnectionError a session is closed, so none of its workers has a request
\* out on the session's socket afterwards.
ConnectionErrorClosesSession ==
    \A w \in Workers :
        "ConnectionError" \in o_logged[w[1]] =>
            o_pc[w] \notin {"fetch_recv", "output_recv"}

(***************************************************************************)
(* AssemblyConfigService.update_attributes                                 *)
(***************************************************************************)

\* Attributes in one batch at most.
MaxBatch == 3

\* COMMON_ATTRIBUTE_SPECS: the names a batch can use and their sizes in bytes.
AttrNames == {"input_size", "output_size", "production_trigger"}

AttrSize(name) == IF name = "production_trigger" THEN 1 ELSE 2

\* The values a caller asks for; the larger one does not fit in one byte.
AttrValues == {1, 300}

\* partial_code
PartialCode == 6

\* set_attribute returned None.
NoStatus == -1

\* set_attribute raised.
SetRaised == -2

\* What a set_attribute call can give: a CIP status, None, or an exception.
SetOutcomes == {0, PartialCode, 8, NoStatus, SetRaised}

\* int.to_bytes(size, byteorder="little")
RECURSIVE ToBytes(_, _)
ToBytes(n, size) ==
    IF size = 0 THEN <<>> ELSE <<n % 256>> \o ToBytes(n \div 256, size - 1)

\* to_bytes raises OverflowError for an integer that needs more bytes.
Fits(n, size) == n < 256 ^ size

\* AttributeSpec.encode
AttrEncode(name, value) == ToBytes(value, AttrSize(name))

\* AttributeSpec.decode
AttrDecode(name, payload) == LE(payload)

\* DEFAULT_OFFLINE_FIXTURES[(0x04, 0x64)]
Fixture ==
    [name \in AttrNames |->
        CASE name = "input_size" -> AttrEncode(name, 16)
          [] name = "output_size" -> AttrEncode(name, 0)
          [] OTHER -> AttrEncode(name, 1)]

\* A Mapping has each name once.
Batches ==
    {b \in UNION {[1..n -> AttrNames \X AttrValues] : n \in 0..MaxBatch} :
        \A i, j \in DOMAIN b : i # j => b[i][1] # b[j][1]}

NoUpdResult == [kind |-> "none", attribute |-> "-", status |-> 0, results |-> <<>>]

NoFailed == [attribute |-> "-", status |-> 0]

\* The device stores what a write with status 0 carried and nothing else.
DevWrite(dev, name, payload, status) ==
    IF status = 0 THEN [dev EXCEPT ![name] = payload] ELSE dev

\* The position of a name in the batch.
IndexOf(values, name) == CHOOSE i \in DOMAIN values : values[i][1] = name

RECURSIVE Reverse(_)
Reverse(seq) == IF seq = <<>> THEN <<>> ELSE Append(Reverse(Tail(seq)), Head(seq))

RollbackOrderForward(applied) == applied

\* for applied_name in reversed(applied)
RollbackOrder(applied) == Reverse(applied)

\* update_attributes(assembly, values, rollback_on_partial) is called.
UpdateCall(values, rollback_on_partial) ==
    /\ up_pc = "entry"
    /\ up_values = values
    /\ up_rollback = rollback_on_partial
    /\ up_dev = Fixture
    /\ up_pre = Fixture
    /\ up_originals = <<>>
    /\ up_applied = <<>>
    /\ up_undo = <<>>
    /\ up_failed = NoFailed
    /\ up_log = <<>>
    /\ up_result = NoUpdResult

\* if not values: return {}
UpdateEntry ==
    /\ up_pc = "entry"
    /\ IF up_values = <<>>
       THEN /\ up_pc' = "done"
            /\ up_result' = [NoUpdResult EXCEPT !.kind = "returned"]
       ELSE up_pc' = "read" /\ UNCHANGED up_result
    /\ UNCHANGED <<up_values, up_rollback, up_dev, up_pre, up_originals, up_applied,
                   up_undo, up_failed, up_log, NotUpd>>

\* The first loop: get_attribute of the next name; None ends the call.
UpdateRead ==
    /\ up_pc = "read"
    /\ LET name == up_values[Len(up_originals) + 1][1]
       IN \E available \in BOOLEAN :
             IF available
             THEN /\ up_originals' = Append(up_originals, up_dev[name])
                  /\ up_pc' = IF Len(up_originals) + 1 = Len(up_values)
                              THEN "write" ELSE "read"
                  /\ UNCHANGED up_result
             ELSE /\ up_pc' = "done"
                  /\ up_result' = [NoUpdResult EXCEPT !.kind = "ConfigError",
                                                      !.attribute = name]
                  /\ UNCHANGED up_originals
    /\ UNCHANGED <<up_values, up_rollback, up_dev, up_pre, up_applied, up_undo,
                   up_failed, up_log, NotUpd>>

\* raise AssemblyUpdateError(name, status)
UpdateError(failed) ==
    [NoUpdResult EXCEPT !.kind = "UpdateError", !.attribute = failed.attribute,
                        !.status = failed.status]

\* The second loop: the next attribute is encoded and written.  A status
\* other than 0 ends the loop, after the write-backs where they are due.
UpdateWrite ==
    /\ up_pc = "write"
    /\ LET k == Len(up_applied) + 1
           name == up_values[k][1]
           value == up_values[k][2]
           payload == AttrEncode(name, value)
       IN IF ~Fits(value, AttrSize(name))
          THEN /\ up_pc' = "done"
               /\ up_result' = [NoUpdResult EXCEPT !.kind = "OverflowError",
                                                   !.attribute = name]
               /\ UNCHANGED <<up_dev, up_applied, up_undo, up_failed, up_log>>
          ELSE \E status \in SetOutcomes :
                  /\ up_log' = Append(up_log, [attribute |-> name,
                                               payload |-> payload,
                                               status |-> status])
                  /\ up_dev' = DevWrite(up_dev, name, payload, status)
                  /\ CASE status = 0 ->
                            /\ up_applied' = Append(up_applied, name)
                            /\ IF k = Len(up_values)
                               THEN /\ up_pc' = "done"
                                    /\ up_result' =
                                          [NoUpdResult EXCEPT
                                              !.kind = "returned",
                                              !.results =
                                                 [i \in 1..k |->
                                                     <<up_values[i][1],
                                                       AttrDecode(up_values[i][1],
                                                          AttrEncode(up_values[i][1],
                                                                     up_values[i][2]))>>]]
                               ELSE UNCHANGED <<up_pc, up_result>>
                            /\ UNCHANGED <<up_undo, up_failed>>
                       [] status = SetRaised ->
                            /\ up_pc' = "done"
                            /\ up_result' = [NoUpdResult EXCEPT
                                                !.kind = "ConnectionError",
                                                !.attribute = name]
                            /\ UNCHANGED <<up_applied, up_undo, up_failed>>
                       [] OTHER ->
                            LET failed == [attribute |-> name, status |-> status]
                                undo == IF up_rollback /\ status = PartialCode
                                        THEN RollbackOrder(up_applied) ELSE <<>>
                            IN /\ up_failed' = failed
                               /\ up_undo' = undo
                               /\ IF undo = <<>>
                                  THEN /\ up_pc' = "done"
                                       /\ up_result' = UpdateError(failed)
                                  ELSE /\ up_pc' = "rollback"
                                       /\ UNCHANGED up_result
                               /\ UNCHANGED up_applied
    /\ UNCHANGED <<up_values, up_rollback, up_pre, up_originals, NotUpd>>

\* The next write-back; its status is not looked at.  After the last one the
\* update error is raised.
UpdateRollback ==
    /\ up_pc = "rollback"
    /\ LET name == Head(up_undo)
           payload == up_originals[IndexOf(up_values, name)]
       IN \E status \in SetOutcomes :
             /\ up_log' = Append(up_log, [attribute |-> name, payload |-> payload,
                                          status |-> status])
             /\ up_dev' = DevWrite(up_dev, name, payload, status)
             /\ IF status = SetRaised
                THEN /\ up_pc' = "done"
                     /\ up_result' = [NoUpdResult EXCEPT !.kind = "ConnectionError",
                                                         !.attribute = name]
                     /\ UNCHANGED up_undo
                ELSE /\ up_undo' = Tail(up_undo)
                     /\ IF Tail(up_undo) = <<>>
                        THEN /\ up_pc' = "done"
                             /\ up_result' = UpdateError(up_failed)
                        ELSE UNCHANGED <<up_pc, up_result>>
    /\ UNCHANGED <<up_values, up_rollback, up_pre, up_originals, up_applied,
                   up_failed, NotUpd>>

\* No update_attributes call is in progress.
UpdIdle == UpdateCall(<<>>, TRUE)

\* Partial failure with rollback: the call has raised the update error for a
\* write that returned status 6 while rollback_on_partial was set.
RolledBack ==
    /\ up_pc = "done"
    /\ up_rollback
    /\ up_result.kind = "UpdateError"
    /\ up_result.status = PartialCode

\* C29: when the k-th write returns status 6 under rollback_on_partial, the
\* calls made after it, before the update error is raised, are the write-backs
\* of the k-1 attributes written before, latest first, each with the payload
\* the attribute had before the batch; and when all of them return status 0
\* every attribute of the batch has its pre-batch payload again.
RollbackRestores ==
    RolledBack =>
        LET k == Len(up_applied) + 1
        IN /\ Len(up_log) = 2 * k - 1
           /\ up_result.attribute = up_values[k][1]
           /\ up_log[k].attribute = up_values[k][1]
           /\ up_log[k].status = PartialCode
           /\ \A i \in 1..(k - 1) :
                 /\ up_log[i].attribute = up_values[i][1]
                 /\ up_log[i].status = 0
                 /\ up_log[k + i].attribute = up_values[k - i][1]
                 /\ up_log[k + i].payload = up_pre[up_values[k - i][1]]
           /\ (\A i \in 1..(k - 1) : up_log[k + i].status = 0) =>
                 \A i \in DOMAIN up_values : up_dev[up_values[i][1]] = up_pre[up_values[i][1]]

\* The third write of a batch failed with status 6 after two writes that
\* changed the device, and both write-backs succeeded.
RolledBackTwo ==
    /\ RolledBack
    /\ Len(up_applied) = 2
    /\ \A i \in 1..2 : up_log[i].payload # up_pre[up_log[i].attribute]
    /\ \A i \in 4..5 : up_log[i].status = 0

(***************************************************************************)
(* HTTP adapter: the session routes and their except clauses               *)
(***************************************************************************)

\* The route functions of sessions_router.
Routes ==
    {"start_session", "stop_session", "get_session", "session_diagnostics",
     "read_assembly", "update_assembly", "get_assembly_state", "write_assembly",
     "execute_command"}

\* The exception classes in play.  ClientConnectionError is the
\* PLCConnectionError of errors.py, which PLCClient raises; the other PLC
\* classes are those of services/plc_manager.py, which the routes import.
Ancestors(class) ==
    CASE class = "ManagerError" -> {"ManagerError", "Exception"}
      [] class = "ConnectionError" -> {"ConnectionError", "ManagerError", "Exception"}
      [] class = "ResponseError" -> {"ResponseError", "ManagerError", "Exception"}
      [] class = "ClientConnectionError" ->
            {"ClientConnectionError", "ClientManagerError", "Exception"}
      [] class = "RuntimeError" -> {"RuntimeError", "Exception"}
      [] class = "NotRegisteredError" ->
            {"NotRegisteredError", "RuntimeError", "Exception"}
      [] class = "DirectionError" -> {"DirectionError", "RuntimeError", "Exception"}
      [] OTHER -> {class}

\* The status an exception carries, where it carries one.
NoExcStatus == -1

Raised(class, kind, status) == [class |-> class, kind |-> kind, status |-> status]

Returned == Raised("none", "returned", NoExcStatus)

UnknownSessionError == Raised("ManagerError", "unknown_session", NoExcStatus)

\* PLCResponseError, with a CIP status or without.
ResponseErrors ==
    {Raised("ResponseError", "response", st) : st \in {NoExcStatus, 6, 8}}

\* A socket failure reported by PLCClient.
ClientFailure == Raised("ClientConnectionError", "connection", NoExcStatus)

\* What the orchestrator method behind each route can return or raise.
Raises(route) ==
    {Returned} \cup
    CASE route = "start_session" ->
            {Raised("ConnectionError", "connection", NoExcStatus), ClientFailure}
                \cup ResponseErrors
      [] route \in {"get_session", "session_diagnostics"} -> {UnknownSessionError}
      [] route \in {"stop_session", "read_assembly", "update_assembly",
                    "execute_command"} ->
            {UnknownSessionError, ClientFailure} \cup ResponseErrors
      [] route = "get_assembly_state" ->
            {UnknownSessionError, ClientFailure,
             Raised("NotRegisteredError", "unknown_alias", NoExcStatus),
             Raised("RuntimeError", "runtime", NoExcStatus)} \cup ResponseErrors
      [] OTHER ->
            {UnknownSessionError, ClientFailure,
             Raised("ManagerError", "timeout", NoExcStatus),
             Raised("NotRegisteredError", "unknown_alias", NoExcStatus),
             Raised("DirectionError", "runtime", NoExcStatus),
             Raised("RuntimeError", "runtime", NoExcStatus)} \cup ResponseErrors

\* The except clauses of each route in the order written, with the status of
\* the HTTPException each raises.
Handlers(route) ==
    CASE route = "start_session" ->
            <<<<"ConnectionError", 502>>, <<"ResponseError", 502>>,
              <<"ManagerError", 500>>>>
      [] route = "stop_session" ->
            <<<<"ManagerError", 404>>, <<"ConnectionError", 502>>,
              <<"ResponseError", 502>>>>
      [] route \in {"get_session", "session_diagnostics"} ->
            <<<<"ManagerError", 404>>>>
      [] route \in {"read_assembly", "update_assembly", "execute_command"} ->
            <<<<"ResponseError", 502>>, <<"ConnectionError", 502>>,
              <<"ManagerError", 404>>>>
      [] route = "get_assembly_state" ->
            <<<<"ManagerError", 404>>, <<"NotRegisteredError", 404>>,
              <<"RuntimeError", 502>>>>
      [] OTHER ->
            <<<<"NotRegisteredError", 404>>, <<"DirectionError", 400>>,
              <<"ResponseError", 502>>, <<"ManagerError", 502>>,
              <<"RuntimeError", 400>>>>

\* The status a route answers with when nothing is raised.
SuccessStatus(route) == IF route = "start_session" THEN 201 ELSE 200

\* try / except: the first clause whose class the exception is an instance of;
\* an exception no clause takes leaves the route and is answered with 500.
RouteStatus(route, error) ==
    LET hs == Handlers(route)
        hit == {i \in DOMAIN hs : hs[i][1] \in Ancestors(error.class)}
    IN IF error = Returned THEN SuccessStatus(route)
       ELSE IF hit = {} THEN 500
       ELSE hs[CHOOSE i \in hit : \A j \in hit : i <= j][2]

\* The clause that took the exception is one that records exc.status.
RecordsStatus(route, error) ==
    LET hs == Handlers(route)
        hit == {i \in DOMAIN hs : hs[i][1] \in Ancestors(error.class)}
    IN /\ hit # {}
       /\ hs[CHOOSE i \in hit : \A j \in hit : i <= j][1] = "ResponseError"

\* A request for a session route has arrived.
HttpRequest(route) ==
    /\ http_pc = "request"
    /\ http_route = route
    /\ http_error = Returned
    /\ http_status = 0
    /\ http_cip_status = NoExcStatus

\* The route function calls the orchestrator.
HttpCall ==
    /\ http_pc = "request"
    /\ http_pc' = "called"
    /\ \E e \in Raises(http_route) : http_error' = e
    /\ UNCHANGED <<http_route, http_status, http_cip_status, NotHttp>>

\* The route function returns its response or raises its HTTPException.
HttpRespond ==
    /\ http_pc = "called"
    /\ http_pc' = "responded"
    /\ http_status' = RouteStatus(http_route, http_error)
    /\ http_cip_status' = IF RecordsStatus(http_route, http_error)
                          THEN http_error.status ELSE http_cip_status
    /\ UNCHANGED <<http_route, http_error, NotHttp>>

\* No request is being served.
HttpIdle == HttpRequest("get_session")

\* The status the mapping by kind gives.
StatusByKind(kind) ==
    CASE kind \in {"connection", "response"} -> 502
      [] kind = "runtime" -> 400
      [] kind \in {"unknown_session", "unknown_alias"} -> 404
      [] OTHER -> 0

\* C30: every session route answers an orchestrator error with the status of
\* its kind: 502 for connection and response errors, 400 for assembly runtime
\* errors, 404 for an unknown session or alias.
ErrorsMappedByKind ==
    (http_pc = "responded" /\ StatusByKind(http_error.kind) # 0) =>
        http_status = StatusByKind(http_error.kind)

(***************************************************************************)
(* PLCClient.get_list_of_instances                                         *)
(***************************************************************************)

\* Requests one call may make before the model stops following it.
MaxQueries == 3

\* Instance ids a device reports, and how many one reply carries at most.
InstanceIds == {1, 300}

MaxIdsPerReply == 2

IdLists == UNION {[1..n -> InstanceIds] : n \in 0..MaxIdsPerReply}

\* CIP status of a reply: success, partial transfer, or an error.
InstStatuses == {0, 6, 8}

\* A reply: its status, the ids the device reports and the payload that
\* carries them as 32-bit little-endian words, possibly with stray bytes.
InstReply(status, ids, stray) ==
    [status |-> status,
     ids |-> ids,
     data |-> Concat([i \in DOMAIN ids |-> U32(ids[i])]) \o [i \in 1..stray |-> 0]]

InstReplies ==
    {InstReply(st, ids, stray) : st \in InstStatuses, ids \in IdLists, stray \in 0..1}

\* struct.unpack('<I', data[i:i + 4]) for i in range(0, len(data), 4): the
\* words of the whole chunks.
Unpack(data) ==
    [i \in 1..(Len(data) \div 4) |-> LE(SubSeq(data, 4 * i - 3, 4 * i))]

\* The last slice is shorter than four bytes, and unpack raises.
ShortChunk(data) == Len(data) % 4 # 0

InstResult(kind, list) == [kind |-> kind, list |-> list]

NoInstResult == InstResult("none", <<>>)

NextStartCount(inst_list) == Len(inst_list)

\* start_instance = inst_list[-1] + 1
NextStart(inst_list) == inst_list[Len(inst_list)] + 1

\* get_list_of_instances is called.
InstCall(sock) ==
    /\ gi_pc = "send"
    /\ gi_sock = sock
    /\ gi_start = 0
    /\ gi_list = <<>>
    /\ gi_requests = <<>>
    /\ gi_replies = <<>>
    /\ gi_result = NoInstResult

\* Loop head: build the request for start_instance and send it; without a
\* socket nothing is sent and the call returns None.
InstSend ==
    /\ gi_pc = "send"
    /\ Len(gi_requests) < MaxQueries
    /\ IF ~gi_sock
       THEN /\ gi_pc' = "done"
            /\ gi_result' = InstResult("None", <<>>)
            /\ UNCHANGED gi_requests
       ELSE /\ gi_requests' = Append(gi_requests, gi_start)
            /\ \/ /\ gi_pc' = "recv"
                  /\ UNCHANGED gi_result
               \/ /\ gi_pc' = "done"
                  /\ gi_result' = InstResult("ConnectionError", <<>>)
    /\ UNCHANGED <<gi_sock, gi_start, gi_list, gi_replies, NotInst>>

\* recv_enippkt raises.
InstRecvFails ==
    /\ gi_pc = "recv"
    /\ gi_pc' = "done"
    /\ gi_result' = InstResult("ConnectionError", <<>>)
    /\ UNCHANGED <<gi_sock, gi_start, gi_list, gi_requests, gi_replies, NotInst>>

\* A reply arrives: its ids are appended, then its status decides.
InstRecvReply ==
    /\ gi_pc = "recv"
    /\ \E reply \in InstReplies :
        LET list == gi_list \o Unpack(reply.data)
        IN /\ gi_replies' = Append(gi_replies, reply)
           /\ gi_list' = list
           /\ IF ShortChunk(reply.data)
              THEN /\ gi_pc' = "done"
                   /\ gi_result' = InstResult("StructError", <<>>)
                   /\ UNCHANGED gi_start
              ELSE IF reply.status = 0
              THEN /\ gi_pc' = "done"
                   /\ gi_result' = InstResult("list", list)
                   /\ UNCHANGED gi_start
              ELSE IF reply.status = 6
              THEN IF list = <<>>
                   THEN /\ gi_pc' = "done"
                        /\ gi_result' = InstResult("IndexError", <<>>)
                        /\ UNCHANGED gi_start
                   ELSE /\ gi_pc' = "send"
                        /\ gi_start' = NextStart(list)
                        /\ UNCHANGED gi_result
              ELSE /\ gi_pc' = "done"
                   /\ gi_result' = InstResult("None", <<>>)
                   /\ UNCHANGED gi_start
    /\ UNCHANGED <<gi_sock, gi_requests, NotInst>>

\* get_list_of_instances is not running.
InstIdle == InstCall(FALSE)

\* The ids the device reported in its first k replies, in order.
ReportedIds(k) == Concat([i \in 1..k |-> gi_replies[i].ids])

\* The last reply received is well formed and has not been followed by a request.
LastReplyOpen ==
    /\ gi_replies # <<>>
    /\ Len(gi_replies) = Len(gi_requests)
    /\ ~ShortChunk(gi_replies[Len(gi_replies)].data)

\* C28: the first query starts from instance 0; every later query follows a
\* status-6 reply and starts from the last instance id received so far plus
\* one, and a status-6 reply carrying ids is always followed by a query; a
\* status-0 reply ends the call with all ids of all replies in the order
\* received; any other status ends it without a list.
InstancePaging ==
    /\ gi_requests # <<>> => gi_requests[1] = 0
    /\ \A i \in 2..Len(gi_requests) :
          /\ gi_replies[i - 1].status = 6
          /\ ReportedIds(i - 1) # <<>>
          /\ gi_requests[i] = ReportedIds(i - 1)[Len(ReportedIds(i - 1))] + 1
    /\ (gi_pc = "done" /\ LastReplyOpen) =>
          LET last == gi_replies[Len(gi_replies)]
          IN /\ ~(last.status = 6 /\ last.ids # <<>>)
             /\ last.status = 0 =>
                   gi_result = InstResult("list", ReportedIds(Len(gi_replies)))
             /\ last.status \notin {0, 6} => gi_result = InstResult("None", <<>>)
    /\ gi_result.kind = "list" =>
          /\ LastReplyOpen
          /\ gi_replies[Len(gi_replies)].status = 0

\* A list of three or more ids was collected over three queries.
PagedThreeQueries ==
    /\ gi_result.kind = "list"
    /\ Len(gi_requests) = 3
    /\ Len(gi_result.list) >= 3
    /\ gi_requests[3] = 301

(***************************************************************************)
(* SessionHandle.last_activity_at and SessionOrchestrator._mark_activity   *)
(***************************************************************************)

\* How far the clock runs.
MaxClock == 3

\* The threads that operate on one session: an API caller and a worker.
Markers == {"caller", "worker"}

\* A session has just been created: last_activity_at is the creation time.
ActivityNew ==
    /\ act_clock = 0
    /\ act_last = 0
    /\ act_pc = [m \in Markers |-> "idle"]
    /\ act_begin = [m \in Markers |-> 0]
    /\ act_time = [m \in Markers |-> 0]

\* Time passes.
ClockTick ==
    /\ act_clock < MaxClock
    /\ act_clock' = act_clock + 1
    /\ UNCHANGED <<act_last, act_pc, act_begin, act_time, NotAct>>

\* A thread starts an operation on the session (read_assembly,
\* write_attribute, send_command, write_assembly, a fetch) and carries out
\* its exchange; the io_lock it holds meanwhile is released before the mark.
OpBegin(m) ==
    /\ act_pc[m] = "idle"
    /\ act_pc' = [act_pc EXCEPT ![m] = "running"]
    /\ act_begin' = [act_begin EXCEPT ![m] = act_clock]
    /\ UNCHANGED <<act_clock, act_last, act_time, NotAct>>

\* _mark_activity, first half: time.time() is evaluated.
MarkRead(m) ==
    /\ act_pc[m] = "running"
    /\ act_pc' = [act_pc EXCEPT ![m] = "timed"]
    /\ act_time' = [act_time EXCEPT ![m] = act_clock]
    /\ UNCHANGED <<act_clock, act_last, act_begin, NotAct>>

\* _mark_activity, second half: the value is stored in the handle.
MarkStore(m) ==
    /\ act_pc[m] = "timed"
    /\ act_pc' = [act_pc EXCEPT ![m] = "marked"]
    /\ act_last' = act_time[m]
    /\ UNCHANGED <<act_clock, act_begin, act_time, NotAct>>

\* The operation returns to its caller.
OpReturn(m) ==
    /\ act_pc[m] = "marked"
    /\ act_pc' = [act_pc EXCEPT ![m] = "idle"]
    /\ UNCHANGED <<act_clock, act_last, act_begin, act_time, NotAct>>

\* C24: last_activity_at never decreases, in any interleaving of callers and
\* workers, and an operation that is about to return successfully leaves it
\* at least as large as the time at which the operation started.
ActivityMonotone ==
    /\ [](\A m \in Markers : act_pc[m] = "marked" => act_last >= act_begin[m])
    /\ [][act_last' >= act_last]_vars

(***************************************************************************)
(* Worker sets: start_session, stop_session, apply_configuration and the   *)
(* records IORuntime.load rebuilds                                         *)
(***************************************************************************)

\* Sessions started, apply_configuration calls and write_assembly calls
\* followed in one behaviour.
MaxStarts == 2

MaxApply == 1

MaxOutputs == 1

\* The aliases a configuration may declare, in the order the runtime lists
\* them, and the directions config_loader accepts.
AliasOrder == <<"x", "y">>

ConfigAliases == {AliasOrder[i] : i \in DOMAIN AliasOrder}

Directions == {"input", "output", "bidirectional", "configuration"}

Absent == "absent"

\* What load leaves in _assemblies: a direction for every declared alias.
Configs == [ConfigAliases -> Directions \cup {Absent}]

\* Configurations that declare at most the first alias.
OneAliasConfigs == {cfg \in Configs : cfg["y"] = Absent}

\* IORuntime.configured
Configured(cfg) == \E a \in ConfigAliases : cfg[a] # Absent

\* IORuntime.input_assemblies
InputAssemblies(cfg) == {a \in ConfigAliases : cfg[a] \in {"input", "bidirectional"}}

OutputAssembliesOutputOnly(cfg) == {a \in ConfigAliases : cfg[a] = "output"}

\* IORuntime.output_assemblies
OutputAssemblies(cfg) == {a \in ConfigAliases : cfg[a] \in {"output", "bidirectional"}}

SessionIds == 1..MaxStarts

OutputIds == 1..MaxOutputs

NoLoops == [event |-> 0, threads |-> {}]

NotCalling == [op |-> "idle", handles |-> <<>>, step |-> "none"]

WriterIdle == [pc |-> "idle", req |-> 0, result |-> "none"]

WorkerThread(sid, role, alias, event) ==
    [sid |-> sid, role |-> role, alias |-> alias, event |-> event]

\* The aliases of a set in the order the runtime lists them.
Listed(aliases) == SelectSeq(AliasOrder, LAMBDA a : a \in aliases)

\* The threads _start_io_loops starts for a session, all on one stop event:
\* a poll loop per input assembly, then a dispatch loop per output assembly.
NewThreads(sid, cfg, event) ==
    LET ins == Listed(InputAssemblies(cfg))
        outs == Listed(OutputAssemblies(cfg))
    IN [i \in DOMAIN ins |-> WorkerThread(sid, "poll", ins[i], event)]
           \o [i \in DOMAIN outs |-> WorkerThread(sid, "disp", outs[i], event)]

\* _start_io_loops(handle)
StartWorkers(sid, loops, events) ==
    IF ~Configured(rc_config)
    THEN /\ rc_loops' = loops
         /\ rc_events' = events
         /\ UNCHANGED <<rc_threads, rc_pc, rc_held>>
    ELSE LET ev == Len(events) + 1
             new == NewThreads(sid, rc_config, ev)
             ids == (Len(rc_threads) + 1)..(Len(rc_threads) + Len(new))
         IN /\ rc_events' = Append(events, FALSE)
            /\ rc_threads' = rc_threads \o new
            /\ rc_pc' = rc_pc \o [i \in DOMAIN new |-> "run"]
            /\ rc_held' = rc_held \o [i \in DOMAIN new |-> 0]
            /\ rc_loops' = IF new = <<>> THEN loops
                           ELSE [loops EXCEPT ![sid] = [event |-> ev, threads |-> ids]]

\* _stop_io_loops(session_id): the loops and events it leaves.
LoopsAfterStop(sid) == [rc_loops EXCEPT ![sid] = NoLoops]

EventsAfterStop(sid) ==
    IF rc_loops[sid] = NoLoops THEN rc_events
    ELSE [rc_events EXCEPT ![rc_loops[sid].event] = TRUE]

\* An orchestrator with a runtime that has a configuration loaded or not.
LoopsInit(cfg) ==
    /\ rc_config = cfg
    /\ rc_gen = 0
    /\ rc_sessions = <<>>
    /\ rc_started = 0
    /\ rc_loops = [sid \in SessionIds |-> NoLoops]
    /\ rc_events = <<>>
    /\ rc_threads = <<>>
    /\ rc_pc = <<>>
    /\ rc_held = <<>>
    /\ rc_call = NotCalling
    /\ rc_queue = <<>>
    /\ rc_req = [r \in OutputIds |-> "free"]
    /\ rc_writer = WriterIdle

LoopsIdle == LoopsInit([a \in ConfigAliases |-> Absent])

\* start_session: the handle is registered and its loops are started.
LoopsStartSession ==
    /\ rc_call = NotCalling
    /\ rc_started < MaxStarts
    /\ rc_started' = rc_started + 1
    /\ rc_sessions' = Append(rc_sessions, rc_started + 1)
    /\ StartWorkers(rc_started + 1, rc_loops, rc_events)
    /\ UNCHANGED <<rc_config, rc_gen, rc_call, rc_queue, rc_req, rc_writer, NotReload>>

\* start_session as far as `self._sessions[session_id] = handle`: from here
\* on apply_configuration finds the handle.
RaceStartRegister ==
    /\ rc_starting = 0
    /\ rc_started < MaxStarts
    /\ rc_started' = rc_started + 1
    /\ rc_sessions' = Append(rc_sessions, rc_started + 1)
    /\ rc_starting' = rc_started + 1
    /\ UNCHANGED <<rc_config, rc_gen, rc_loops, rc_events, rc_threads, rc_pc,
                   rc_held, rc_call, rc_queue, rc_req, rc_writer, NotLoopsRace>>

\* start_session: self._start_io_loops(handle), outside the lock.
RaceStartLoops ==
    /\ rc_starting # 0
    /\ StartWorkers(rc_starting, rc_loops, rc_events)
    /\ rc_starting' = 0
    /\ UNCHANGED <<rc_config, rc_gen, rc_sessions, rc_started, rc_call, rc_queue,
                   rc_req, rc_writer, NotLoopsRace>>

\* stop_session: the loops are stopped and the handle is removed.
LoopsStopSession(sid) ==
    /\ rc_call = NotCalling
    /\ \E i \in DOMAIN rc_sessions : rc_sessions[i] = sid
    /\ rc_loops' = LoopsAfterStop(sid)
    /\ rc_events' = EventsAfterStop(sid)
    /\ rc_sessions' = SelectSeq(rc_sessions, LAMBDA x : x # sid)
    /\ UNCHANGED <<rc_config, rc_gen, rc_started, rc_threads, rc_pc, rc_held,
                   rc_call, rc_queue, rc_req, rc_writer, NotReload>>

\* apply_configuration: load builds new records and the handles are listed.
ApplyConfigurationLoad(cfg) ==
    /\ rc_call = NotCalling
    /\ rc_gen < MaxApply
    /\ rc_config' = cfg
    /\ rc_gen' = rc_gen + 1
    /\ rc_call' = IF rc_sessions = <<>> THEN NotCalling
                  ELSE [op |-> "apply", handles |-> rc_sessions, step |-> "stop"]
    /\ UNCHANGED <<rc_sessions, rc_started, rc_loops, rc_events, rc_threads,
                   rc_pc, rc_held, rc_queue, rc_req, rc_writer, NotReload>>

\* apply_configuration: _stop_io_loops for the next handle.
ApplyConfigurationStop ==
    /\ rc_call.op = "apply"
    /\ rc_call.step = "stop"
    /\ rc_loops' = LoopsAfterStop(Head(rc_call.handles))
    /\ rc_events' = EventsAfterStop(Head(rc_call.handles))
    /\ rc_call' = [rc_call EXCEPT !.step = "start"]
    /\ UNCHANGED <<rc_config, rc_gen, rc_sessions, rc_started, rc_threads, rc_pc,
                   rc_held, rc_queue, rc_req, rc_writer, NotReload>>

\* apply_configuration: _start_io_loops for the same handle, then the next.
ApplyConfigurationStart ==
    /\ rc_call.op = "apply"
    /\ rc_call.step = "start"
    /\ StartWorkers(Head(rc_call.handles), rc_loops, rc_events)
    /\ rc_call' = IF Len(rc_call.handles) = 1 THEN NotCalling
                  ELSE [rc_call EXCEPT !.handles = Tail(@), !.step = "stop"]
    /\ UNCHANGED <<rc_config, rc_gen, rc_sessions, rc_started, rc_queue, rc_req,
                   rc_writer, NotReload>>

\* The queue of the current record of an alias: what was put since the
\* last load.
PendingOutputs(alias) ==
    SelectSeq(rc_queue, LAMBDA e : e.gen = rc_gen /\ e.alias = alias)

\* write_assembly up to its wait: _require_session, then queue_output puts a
\* new request on the current record of an output alias.
WriteAssemblyQueue(sid, alias) ==
    /\ rc_writer.pc = "idle"
    /\ \E i \in DOMAIN rc_sessions : rc_sessions[i] = sid
    /\ \E r \in OutputIds :
        /\ rc_req[r] = "free"
        /\ \A q \in OutputIds : rc_req[q] = "free" => r <= q
        /\ IF alias \in OutputAssemblies(rc_config)
           THEN /\ rc_queue' = Append(rc_queue, [gen |-> rc_gen, alias |-> alias, req |-> r])
                /\ rc_req' = [rc_req EXCEPT ![r] = "queued"]
                /\ rc_writer' = [pc |-> "wait", req |-> r, result |-> "none"]
           ELSE /\ rc_writer' = [pc |-> "idle", req |-> 0, result |-> "rejected"]
                /\ UNCHANGED <<rc_queue, rc_req>>
    /\ UNCHANGED <<rc_config, rc_gen, rc_sessions, rc_started, rc_loops, rc_events,
                   rc_threads, rc_pc, rc_held, rc_call, NotReload>>

\* write_assembly's wait: the recorded result, or the timeout.
WriteAssemblyWait ==
    /\ rc_writer.pc = "wait"
    /\ rc_writer' = [pc |-> "idle", req |-> 0,
                     result |-> IF rc_req[rc_writer.req] \in {"ok", "error"}
                                THEN rc_req[rc_writer.req] ELSE "timeout"]
    /\ UNCHANGED <<rc_config, rc_gen, rc_sessions, rc_started, rc_loops, rc_events,
                   rc_threads, rc_pc, rc_held, rc_call, rc_queue, rc_req, NotReload>>

\* _output_dispatch_loop, loop head and await_output: the loop ends when the
\* stop event is set or the alias is no longer an output of the current
\* records; otherwise the head of the current record's queue is taken, and
\* an empty queue changes nothing.
DispatchAwait(t) ==
    /\ t \in DOMAIN rc_threads
    /\ rc_threads[t].role = "disp"
    /\ rc_pc[t] = "run"
    /\ LET alias == rc_threads[t].alias
           pending == PendingOutputs(alias)
       IN IF rc_events[rc_threads[t].event] \/ alias \notin OutputAssemblies(rc_config)
          THEN /\ rc_pc' = [rc_pc EXCEPT ![t] = "done"]
               /\ UNCHANGED <<rc_held, rc_queue, rc_req>>
          ELSE /\ pending # <<>>
               /\ rc_pc' = [rc_pc EXCEPT ![t] = "got"]
               /\ rc_held' = [rc_held EXCEPT ![t] = Head(pending).req]
               /\ rc_queue' = SelectSeq(rc_queue, LAMBDA e : e # Head(pending))
               /\ rc_req' = [rc_req EXCEPT ![Head(pending).req] = "taken"]
    /\ UNCHANGED <<rc_config, rc_gen, rc_sessions, rc_started, rc_loops, rc_events,
                   rc_threads, rc_call, rc_writer, NotReload>>

\* _output_dispatch_loop, the rest of the iteration: _require_session, the
\* exchange, and request.complete with a status or an error.
DispatchSend(t) ==
    /\ t \in DOMAIN rc_threads
    /\ rc_pc[t] = "got"
    /\ \E outcome \in {"ok", "error"} :
        /\ (\A i \in DOMAIN rc_sessions : rc_sessions[i] # rc_threads[t].sid) =>
               outcome = "error"
        /\ rc_req' = [rc_req EXCEPT ![rc_held[t]] = outcome]
    /\ rc_pc' = [rc_pc EXCEPT ![t] = "run"]
    /\ rc_held' = [rc_held EXCEPT ![t] = 0]
    /\ UNCHANGED <<rc_config, rc_gen, rc_sessions, rc_started, rc_loops, rc_events,
                   rc_threads, rc_call, rc_queue, rc_writer, NotReload>>

\* The threads recorded as the current worker set of a session.
CurrentWorkers(sid) == rc_loops[sid].threads

\* How many current workers of a role a session has for an alias.
WorkerCount(sid, role, alias) ==
    Cardinality({t \in CurrentWorkers(sid) :
                    rc_threads[t].role = role /\ rc_threads[t].alias = alias})

OpenSessions == {rc_sessions[i] : i \in DOMAIN rc_sessions}

\* C27: once start_session or apply_configuration has returned, with a
\* configuration loaded every open session has exactly one poll worker per
\* input or bidirectional alias and one dispatch worker per output or
\* bidirectional alias, none for other aliases, all on one stop event that
\* is not set; every worker outside the current sets has its stop event
\* set; with no configuration loaded a session has no workers.
WorkerSetsMatchConfiguration ==
    rc_call = NotCalling =>
        /\ \A sid \in OpenSessions :
              IF Configured(rc_config)
              THEN /\ \A a \in ConfigAliases :
                        /\ WorkerCount(sid, "poll", a) =
                              IF rc_config[a] \in {"input", "bidirectional"} THEN 1 ELSE 0
                        /\ WorkerCount(sid, "disp", a) =
                              IF rc_config[a] \in {"output", "bidirectional"} THEN 1 ELSE 0
                   /\ \A t \in CurrentWorkers(sid) :
                        /\ rc_threads[t].sid = sid
                        /\ rc_threads[t].event = rc_loops[sid].event
                        /\ ~rc_events[rc_threads[t].event]
              ELSE CurrentWorkers(sid) = {}
        /\ \A t \in DOMAIN rc_threads :
              (\A sid \in OpenSessions : t \notin CurrentWorkers(sid)) =>
                  rc_events[rc_threads[t].event]

\* apply_configuration has returned with two sessions open: each has a poll
\* and a dispatch worker for the bidirectional alias, and the workers of the
\* sets it replaced are still on record.
TwoSessionsReloaded ==
    /\ rc_call = NotCalling
    /\ rc_gen = 1
    /\ Len(rc_sessions) = 2
    /\ rc_config = [a \in ConfigAliases |->
                       IF a = "x" THEN "bidirectional" ELSE "configuration"]
    /\ \A sid \in OpenSessions : Cardinality(CurrentWorkers(sid)) = 2
    /\ Len(rc_threads) > 4

\* C23: every request queue_output accepted is eventually completed with a
\* status or an error, also when apply_configuration reloads the runtime
\* while it is pending (sessions stay open; workers and the reloading
\* thread are scheduled fairly).
AcceptedOutputCompleted ==
    \A r \in OutputIds : [](rc_req[r] = "queued" => <>(rc_req[r] \in {"ok", "error"}))

\* The orchestrator before anything is called on it.
OrchIdle ==
    OrchInit(CHOOSE d \in Deployments : d.sessions = 1 /\ d.aliases = Aliases)

\* State of the other components while they are not exercised.
TagIdle ==
    /\ tag_total = 0
    /\ tag_connected = TRUE
    /\ tag_pc = "done"
    /\ tag_offset = 0
    /\ tag_remaining = 0
    /\ tag_chunks = <<>>
    /\ tag_last_status = NoCode
    /\ tag_requests = <<>>
    /\ tag_replies = <<>>
    /\ tag_result = NoTagResult

(***************************************************************************)
(* PLCConnectionPool.acquire / release called from several threads          *)
(***************************************************************************)

\* The threads that share the pool.
PoolThreads == {"p1", "p2"}

\* PLCClient objects constructed in a run.
MaxBuilt == 4

\* No thread is inside the pool and none holds a client.
PoolRaceIdle ==
    /\ pr_pc = [p \in PoolThreads |-> "idle"]
    /\ pr_held = [p \in PoolThreads |-> 0]
    /\ pr_seen = [p \in PoolThreads |-> 0]
    /\ pr_built = 0

RaceIdle == PoolRaceIdle /\ rc_starting = 0

\* acquire: client = self._clients.pop(), one deque operation; IndexError
\* sends the thread on to the capacity test.
RaceAcquirePop(p) ==
    /\ pr_pc[p] = "idle"
    /\ pr_held[p] = 0
    /\ IF pool_clients # <<>>
       THEN /\ pool_clients' = Front(pool_clients)
            /\ pr_held' = [pr_held EXCEPT ![p] = Last(pool_clients)]
            /\ UNCHANGED pr_pc
       ELSE /\ pr_pc' = [pr_pc EXCEPT ![p] = "check"]
            /\ UNCHANGED <<pool_clients, pr_held>>
    /\ UNCHANGED <<pool_created, pr_seen, pr_built, NotPoolRace>>

\* if self._created >= self._max_size: raise PLCConnectionError
RaceAcquireCheck(p) ==
    /\ pr_pc[p] = "check"
    /\ pr_pc' = [pr_pc EXCEPT ![p] = IF pool_created >= pool_max_size
                                     THEN "idle" ELSE "construct"]
    /\ UNCHANGED <<pool_clients, pool_created, pr_held, pr_seen, pr_built, NotPoolRace>>

\* _create_client: PLCClient(addr, port) raises, or gives a client that is
\* connected or not.
RaceConstruct(p) ==
    /\ pr_pc[p] = "construct"
    /\ pr_built < MaxBuilt
    /\ \E ctor \in CtorOutcomes :
          IF ctor \in {"os_error", "scapy_error"}
          THEN /\ pr_pc' = [pr_pc EXCEPT ![p] = "idle"]
               /\ UNCHANGED <<pr_built, pr_held>>
          ELSE /\ pr_built' = pr_built + 1
               /\ pr_held' = [pr_held EXCEPT ![p] =
                                 IF ctor = "connected" THEN pr_built + 1 ELSE 0]
               /\ pr_pc' = [pr_pc EXCEPT ![p] = "load"]
    /\ UNCHANGED <<pool_clients, pool_created, pr_seen, NotPoolRace>>

\* self._created += 1, the read of the attribute
RaceLoadCreated(p) ==
    /\ pr_pc[p] = "load"
    /\ pr_seen' = [pr_seen EXCEPT ![p] = pool_created]
    /\ pr_pc' = [pr_pc EXCEPT ![p] = "store"]
    /\ UNCHANGED <<pool_clients, pool_created, pr_held, pr_built, NotPoolRace>>

\* self._created += 1, the store; then the connected test, and acquire
\* returns the client or raises.
RaceStoreCreated(p) ==
    /\ pr_pc[p] = "store"
    /\ pool_created' = pr_seen[p] + 1
    /\ pr_seen' = [pr_seen EXCEPT ![p] = 0]
    /\ pr_pc' = [pr_pc EXCEPT ![p] = "idle"]
    /\ UNCHANGED <<pool_clients, pr_held, pr_built, NotPoolRace>>

\* release: if len(self._clients) < self._max_size
RaceReleaseCheck(p) ==
    /\ pr_pc[p] = "idle"
    /\ pr_held[p] # 0
    /\ IF Len(pool_clients) < pool_max_size
       THEN pr_pc' = [pr_pc EXCEPT ![p] = "append"] /\ UNCHANGED pr_held
       ELSE pr_held' = [pr_held EXCEPT ![p] = 0] /\ UNCHANGED pr_pc
    /\ UNCHANGED <<pool_clients, pool_created, pr_seen, pr_built, NotPoolRace>>

\* release: self._clients.append(client)
RaceReleaseAppend(p) ==
    /\ pr_pc[p] = "append"
    /\ pool_clients' = Append(pool_clients, pr_held[p])
    /\ pr_held' = [pr_held EXCEPT ![p] = 0]
    /\ pr_pc' = [pr_pc EXCEPT ![p] = "idle"]
    /\ UNCHANGED <<pool_created, pr_seen, pr_built, NotPoolRace>>

\* C31: with several threads in acquire and release, no more than max_size
\* clients are ever constructed, the pool's counter and its idle list stay
\* within max_size, and no client is held by two threads or held and idle.
PoolOperationsAtomic ==
    /\ pr_built <= pool_max_size
    /\ pool_created <= pool_max_size
    /\ Len(pool_clients) <= pool_max_size
    /\ \A p, q \in PoolThreads :
          (p # q /\ pr_held[p] # 0 /\ pr_pc[p] \in {"idle", "append"}) =>
              pr_held[p] # pr_held[q]
    /\ \A p \in PoolThreads :
          (pr_held[p] # 0 /\ pr_pc[p] \in {"idle", "append"}) =>
              IdleCount(pr_held[p]) = 0

\* C38: every worker whose stop event is not set is one of the threads the
\* loop table records for its session, whatever the interleaving of
\* start_session and apply_configuration.
EveryWorkerRecorded ==
    \A i \in DOMAIN rc_threads :
        ~rc_events[rc_threads[i].event] =>
            /\ rc_loops[rc_threads[i].sid] # NoLoops
            /\ i \in rc_loops[rc_threads[i].sid].threads

\* The components added later, while they are not exercised.
LateIdle == UpdIdle /\ HttpIdle /\ InstIdle /\ ActivityNew /\ LoopsIdle
        /\ RaceIdle

InitPool ==
    (\E m \in 0..MaxPoolArg : PoolInit(m)) /\ TagIdle /\ ClientNew /\ OrchIdle
        /\ SessNew /\ LateIdle

NextPool == Acquire \/ Release

SpecPool == InitPool /\ [][NextPool]_vars

PoolIdle == PoolInit(PoolSize)

InitTag ==
    /\ \E n \in 0..MaxTotal, c \in BOOLEAN : TagCall(n, c)
    /\ PoolIdle
    /\ ClientNew
    /\ OrchIdle
    /\ SessNew
    /\ LateIdle

NextTag == TagLoop \/ TagRecvNone \/ TagRecvFails \/ TagRecvReply

SpecTag == InitTag /\ [][NextTag]_vars

InitClient == ClientNew /\ PoolIdle /\ TagIdle /\ OrchIdle /\ SessNew /\ LateIdle

NextClient ==
    \/ ClientConnect
    \/ RegisterSend
    \/ \E op \in {"rr", "rr_cm", "rr_mr", "unit"} : ClientSend(op)
    \/ RecvEnter
    \/ RecvHeader
    \/ RecvPayload

SpecClient == InitClient /\ [][NextClient]_vars

InitSession == SessNew /\ PoolIdle /\ TagIdle /\ ClientNew /\ OrchIdle /\ LateIdle

NextSession ==
    \E c \in ClientIds :
        \/ Construct(c)
        \/ \E op \in {"rr", "rr_cm", "rr_mr"} : SendRR(c, op)
        \/ SendUnit(c, MaxSends)
        \/ ManagerStartSession(c)
        \/ ClientForwardOpen(c)

SpecSession == InitSession /\ [][NextSession]_vars

\* One client and nothing but send_unit_cip, far enough to pass 0xFFFF.
NextSeq == Construct(1) \/ SendUnit(1, MaxSeqCalls)

SpecSeq == InitSession /\ [][NextSeq]_vars


Init ==
    (\E d \in Deployments : OrchInit(d)) /\ PoolIdle /\ TagIdle /\ ClientNew
        /\ SessNew /\ LateIdle

Next ==
    \E t \in Threads :
        \/ RegLockAcquire(t)
        \/ RtLockAcquire(t)
        \/ IoLockAcquire(t)
        \/ Call(t)
        \/ RequireKnown(t)
        \/ RequireUnknown(t)
        \/ ApiSend(t)
        \/ ApiRecv(t)
        \/ FetchSend(t)
        \/ FetchRecv(t)
        \/ UpdateRecord(t)
        \/ UpdateStatus(t)
        \/ View(t)
        \/ Review(t)
        \/ QueueOutput(t)
        \/ WaitOutput(t)
        \/ StopIoLoops(t)
        \/ ForwardCloseSend(t)
        \/ ForwardCloseRecv(t)
        \/ PopSession(t)
        \/ StartSession(t)
        \/ ForwardOpenRecv(t)
        \/ InsertSession(t)
        \/ StartPollers(t)
        \/ StartDispatchers(t)
        \/ LoopCheck(t)
        \/ AwaitOutput(t)
        \/ QueueGet(t)
        \/ OutputSend(t)
        \/ OutputRecv(t)

Spec == Init /\ [][Next]_vars

\* The orchestrator with one API caller whose calls are put on record.
InitApi ==
    (\E d \in AuditDeployments : OrchInit(d)) /\ PoolIdle /\ TagIdle /\ ClientNew
        /\ SessNew /\ LateIdle

SpecApi == InitApi /\ [][Next]_vars

\* One API caller and one session, with a poll worker or a dispatch worker.
StopDeployments ==
    {Deployment({CallerA}, 1, {"in"}), Deployment({CallerA}, 1, {"out"})}

InitStop ==
    (\E d \in StopDeployments : OrchInit(d)) /\ PoolIdle /\ TagIdle /\ ClientNew
        /\ SessNew /\ LateIdle

\* What a thread does once it has been called or started.
Running(t) ==
    \/ RegLockAcquire(t) \/ RtLockAcquire(t) \/ IoLockAcquire(t)
    \/ RequireKnown(t) \/ RequireUnknown(t)
    \/ ApiSend(t) \/ ApiRecv(t) \/ FetchSend(t) \/ FetchRecv(t)
    \/ UpdateRecord(t) \/ UpdateStatus(t) \/ View(t) \/ Review(t)
    \/ QueueOutput(t) \/ WaitOutput(t)
    \/ StopIoLoops(t) \/ ForwardCloseSend(t) \/ ForwardCloseRecv(t) \/ PopSession(t)
    \/ StartSession(t) \/ ForwardOpenRecv(t) \/ InsertSession(t)
    \/ StartPollers(t) \/ StartDispatchers(t)
    \/ LoopCheck(t) \/ AwaitOutput(t) \/ QueueGet(t) \/ OutputSend(t) \/ OutputRecv(t)

\* Threads are scheduled, and calls that block return: a socket read and a
\* dequeue have their timeouts, and a thread waiting for a lock that is
\* released again and again gets it.
FairThreads == \A t \in Threads : SF_vars(Running(t))

SpecStop == InitStop /\ [][Next]_vars /\ FairThreads

\* The earlier components, while they are not exercised.
CoreIdle == PoolIdle /\ TagIdle /\ ClientNew /\ OrchIdle /\ SessNew

InitUpdate ==
    (\E b \in Batches, r \in BOOLEAN : UpdateCall(b, r))
        /\ CoreIdle /\ HttpIdle /\ InstIdle /\ ActivityNew /\ LoopsIdle
        /\ RaceIdle

NextUpdate == UpdateEntry \/ UpdateRead \/ UpdateWrite \/ UpdateRollback

SpecUpdate == InitUpdate /\ [][NextUpdate]_vars

InitHttp ==
    (\E r \in Routes : HttpRequest(r))
        /\ CoreIdle /\ UpdIdle /\ InstIdle /\ ActivityNew /\ LoopsIdle
        /\ RaceIdle

NextHttp == HttpCall \/ HttpRespond

SpecHttp == InitHttp /\ [][NextHttp]_vars

InitInstances ==
    (\E sock \in BOOLEAN : InstCall(sock))
        /\ CoreIdle /\ UpdIdle /\ HttpIdle /\ ActivityNew /\ LoopsIdle
        /\ RaceIdle

NextInstances == InstSend \/ InstRecvFails \/ InstRecvReply

SpecInstances == InitInstances /\ [][NextInstances]_vars

InitActivity ==
    ActivityNew /\ CoreIdle /\ UpdIdle /\ HttpIdle /\ InstIdle /\ LoopsIdle
        /\ RaceIdle

NextActivity ==
    \/ ClockTick
    \/ \E m \in Markers : OpBegin(m) \/ MarkRead(m) \/ MarkStore(m) \/ OpReturn(m)

SpecActivity == InitActivity /\ [][NextActivity]_vars

OthersIdle ==
    CoreIdle /\ UpdIdle /\ HttpIdle /\ InstIdle /\ ActivityNew /\ RaceIdle

InitLoops == (\E cfg \in Configs : LoopsInit(cfg)) /\ OthersIdle

NextLoops ==
    \/ LoopsStartSession
    \/ \E sid \in SessionIds : LoopsStopSession(sid)
    \/ \E cfg \in Configs : ApplyConfigurationLoad(cfg)
    \/ ApplyConfigurationStop
    \/ ApplyConfigurationStart

SpecLoops == InitLoops /\ [][NextLoops]_vars

InitReload == (\E cfg \in OneAliasConfigs : LoopsInit(cfg)) /\ OthersIdle

ThreadIds == 1..((MaxStarts + MaxStarts * MaxApply) * 2)

NextReload ==
    \/ LoopsStartSession
    \/ \E cfg \in OneAliasConfigs : ApplyConfigurationLoad(cfg)
    \/ ApplyConfigurationStop
    \/ ApplyConfigurationStart
    \/ \E sid \in SessionIds, a \in ConfigAliases : WriteAssemblyQueue(sid, a)
    \/ WriteAssemblyWait
    \/ \E t \in ThreadIds : DispatchAwait(t) \/ DispatchSend(t)

\* The scheduler runs every worker thread and the thread inside
\* apply_configuration; callers need not call anything.
FairReload ==
    /\ \A t \in ThreadIds : WF_vars(DispatchAwait(t)) /\ WF_vars(DispatchSend(t))
    /\ WF_vars(ApplyConfigurationStop)
    /\ WF_vars(ApplyConfigurationStart)
    /\ WF_vars(WriteAssemblyWait)

SpecReload == InitReload /\ [][NextReload]_vars /\ FairReload

\* A pool shared by the threads of PoolThreads.
InitPoolRace ==
    (\E m \in 0..MaxPoolArg : PoolInit(m)) /\ TagIdle /\ ClientNew /\ OrchIdle
        /\ SessNew /\ LateIdle

NextPoolRace ==
    \E p \in PoolThreads :
        \/ RaceAcquirePop(p)
        \/ RaceAcquireCheck(p)
        \/ RaceConstruct(p)
        \/ RaceLoadCreated(p)
        \/ RaceStoreCreated(p)
        \/ RaceReleaseCheck(p)
        \/ RaceReleaseAppend(p)

SpecPoolRace == InitPoolRace /\ [][NextPoolRace]_vars

\* start_session, stop_session and apply_configuration on threads of their
\* own: start_session can be between registering the handle and starting
\* its loops while apply_configuration runs.
NextLoopsRace ==
    \/ RaceStartRegister
    \/ RaceStartLoops
    \/ \E sid \in SessionIds : LoopsStopSession(sid)
    \/ \E cfg \in Configs : ApplyConfigurationLoad(cfg)
    \/ ApplyConfigurationStop
    \/ ApplyConfigurationStart

SpecLoopsRace == InitLoops /\ [][NextLoopsRace]_vars

====
